---- MODULE Spec2Model ----
(***************************************************************************)
(* Model of the image proxy server of hoainhanpro/ImageGen: the five image *)
(* endpoints of server/routes.ts, the zod schemas of shared/schema.ts, the *)
(* template substitution of shared/templates.ts, the three OpenAI wrappers *)
(* of server/lib/openai.ts, and the Google Drive endpoints over the        *)
(* DriveService of server/lib/drive.ts.                                    *)
(*                                                                         *)
(* Representation.  A JavaScript string whose content matters (prompt,     *)
(* size, user, keys, urls, messages) is a sequence of text segments: ""    *)
(* is << >>, a literal is a one-segment sequence and concatenation is \o.  *)
(* Enumerated fields (model, quality, ...) are TLA+ strings.  A JavaScript *)
(* object is a function whose domain is the set of keys that are present:  *)
(* an absent (undefined) property is a key outside the domain.             *)
(***************************************************************************)
EXTENDS Integers, Sequences, FiniteSets, TLC

VARIABLES env, pc, req, validatedData, tasks, calls, responses,
          oauth2Client, driveRequests, driveCalls

\* the state of the image endpoints and of the Google Drive endpoints
imageVars == <<env, pc, req, validatedData, tasks, calls, responses>>

driveVars == <<oauth2Client, driveRequests, driveCalls>>

vars == <<env, pc, req, validatedData, tasks, calls, responses,
          oauth2Client, driveRequests, driveCalls>>

(***************************************************************************)
(* Bounds of the model.                                                    *)
(***************************************************************************)
\* optional body fields supplied together in one request
MaxExtras == 1
\* entries in the data list of one upstream image response
MaxImages == 2
\* items of one batch request
MaxItems == 2
\* files uploaded in the originalImage<i> fields of one edit request
MaxFiles == 3
\* Drive requests the server handles at the same time
MaxConnections == 2
\* folders above the folder a Drive listing asks for
MaxDepth == 2

(***************************************************************************)
(* Objects and strings.                                                    *)
(***************************************************************************)
EmptyObject == [k \in {} |-> 0]

Has(o, k) == k \in DOMAIN o

\* { ...o, k: v }
With(o, k, v) == (k :> v) @@ o

\* the object o without the keys in ks (rest destructuring)
Without(o, ks) == [k \in (DOMAIN o) \ ks |-> o[k]]

\* JavaScript truthiness of a string
Truthy(s) == s # << >>

\* String.prototype.startsWith
StartsWith(s, prefix) ==
    /\ Len(s) >= Len(prefix)
    /\ SubSeq(s, 1, Len(prefix)) = prefix

Gemini == "gemini-2.5-flash-image-preview"

\* stands for the NaN parseInt gives when the string does not start with a
\* digit: a number no digit string parses to and no schema range holds
NaN == -1

(***************************************************************************)
(* zod.  A schema is a sequence of field descriptions in source order.     *)
(* parse() checks every field, fills defaults, strips unknown keys, and    *)
(* throws a ZodError naming every failing field.  `strings` is the set of  *)
(* keys whose value is still a multipart form string when it reaches the   *)
(* schema: z.number() and z.enum() test the run-time type first.           *)
(***************************************************************************)
ZString(key, minLen)  == [key |-> key, type |-> "string", min |-> minLen]
ZEnum(key, values)    == [key |-> key, type |-> "enum", values |-> values]
ZNumber(key, lo, hi)  == [key |-> key, type |-> "number", min |-> lo, max |-> hi]
ZRecord(key)          == [key |-> key, type |-> "record"]
ZItems(key, minLen)   == [key |-> key, type |-> "array", min |-> minLen]

ModelEnum == {"dall-e-2", "dall-e-3", "gpt-image-1", Gemini}
QualityEnum == {"standard", "hd", "auto", "high", "medium", "low"}

\* fields that carry a .default(...)
generateImageDefaults ==
    [model |-> "dall-e-2", size |-> <<"512x512">>, n |-> 1]

generateImageSchema == <<
    ZString("prompt", 1),
    ZEnum("model", ModelEnum),
    ZString("size", 0),
    ZNumber("n", 1, 10),
    ZEnum("quality", QualityEnum),
    ZEnum("style", {"vivid", "natural"}),
    ZEnum("response_format", {"url", "b64_json"}),
    ZEnum("output_format", {"png", "jpeg", "webp"}),
    ZNumber("output_compression", 0, 100),
    ZEnum("background", {"auto", "transparent", "opaque"}),
    ZEnum("moderation", {"auto", "low"}),
    ZString("user", 0) >>

\* keys that are neither .optional() nor .default(): a missing value fails
generateImageRequired == {"prompt"}

editImageDefaults ==
    [model |-> "dall-e-2", size |-> <<"1024x1024">>, n |-> 1]

editImageSchema == <<
    ZString("prompt", 1),
    ZEnum("model", {"dall-e-2", "gpt-image-1"}),
    ZString("size", 0),
    ZNumber("n", 1, 10),
    ZEnum("quality", {"standard", "high", "medium", "low", "auto"}),
    ZEnum("response_format", {"url", "b64_json"}),
    ZEnum("output_format", {"png", "jpeg", "webp"}),
    ZNumber("output_compression", 0, 100),
    ZEnum("background", {"auto", "transparent", "opaque"}),
    ZString("user", 0) >>

editImageRequired == {"prompt"}

createVariationsDefaults ==
    [n |-> 1, size |-> "1024x1024", response_format |-> "url"]

createVariationsSchema == <<
    ZNumber("n", 1, 10),
    ZEnum("size", {"256x256", "512x512", "1024x1024"}),
    ZEnum("response_format", {"url", "b64_json"}),
    ZString("user", 0) >>

createVariationsRequired == {}

flowerGenerationDefaults ==
    [model |-> "dall-e-2", size |-> <<"1024x1024">>, n |-> 1]

flowerGenerationSchema ==
    << ZString("templateId", 1), ZRecord("variables") >>
    \o Tail(generateImageSchema)

flowerGenerationRequired == {"templateId", "variables"}

batchFlowerGenerationSchema ==
    << ZString("templateId", 1), ZItems("items", 1) >>
    \o Tail(generateImageSchema)

batchFlowerGenerationRequired == {"templateId", "items"}

\* batchFlowerItemSchema: referenceImageId non-empty, variables a record
batchFlowerItemSchema(item) ==
    /\ Has(item, "referenceImageId")
    /\ Len(item.referenceImageId) >= 1
    /\ Has(item, "variables")

\* one field of a schema accepts the value v
ZAccepts(f, v, isFormString) ==
    CASE f.type = "string" -> Len(v) >= f.min
      [] f.type = "enum"   -> v \in f.values
      [] f.type = "number" -> (~isFormString) /\ v # NaN /\ v >= f.min /\ v <= f.max
      [] f.type = "record" -> TRUE
      [] f.type = "array"  ->
            /\ Len(v) >= f.min
            /\ \A i \in 1..Len(v) : batchFlowerItemSchema(v[i])

\* the fields of the schema the data fail, in schema order
ZIssues(schema, required, data, strings) ==
    LET bad(f) ==
            IF Has(data, f.key)
            THEN ~ZAccepts(f, data[f.key], f.key \in strings)
            ELSE f.key \in required
    IN  SelectSeq(schema, bad)

ZKeys(schema) == {schema[i].key : i \in 1..Len(schema)}

\* the parsed value: schema keys only, defaults where the input has none
ZOutput(schema, defaults, data) ==
    [k \in (DOMAIN data \cup DOMAIN defaults) \cap ZKeys(schema) |->
        IF Has(data, k) THEN data[k] ELSE defaults[k]]

\* ZodError.message lists the issues
ZodMessage(issues) ==
    <<"ZodError">> \o [i \in 1..Len(issues) |-> issues[i].key]

(***************************************************************************)
(* shared/templates.ts.  A prompt template is a sequence of segments; a    *)
(* placeholder {{name}} is a segment of its own.  The fixed text between   *)
(* placeholders is abbreviated to its first words.                         *)
(***************************************************************************)
FlowerVariables == <<
    [name |-> "flower_name",    defaultValue |-> <<"Yellow Lily">>],
    [name |-> "petal_color",    defaultValue |-> <<"golden yellow">>],
    [name |-> "anther_color",   defaultValue |-> <<"warm brown">>],
    [name |-> "filament_color", defaultValue |-> <<"pale yellow">>] >>

Placeholder(name) == "{{" \o name \o "}}"

FLOWER_TEMPLATES == <<
    [id |-> <<"single-branch">>,
     variables |-> FlowerVariables,
     promptTemplate |->
        << "SUBJECT: single [", "{{flower_name}}", "] branch; ... COLOR: petals [",
           "{{petal_color}}", "]; leaves fresh green; anthers [", "{{anther_color}}",
           "]; filaments [", "{{filament_color}}", "]; saturation even. ..." >>],
    [id |-> <<"bouquet">>,
     variables |-> FlowerVariables,
     promptTemplate |->
        << "SUBJECT: bouquet of [", "{{flower_name}}", "] stems; ... COLOR: petals [",
           "{{petal_color}}", "]; leaves fresh green; anthers [", "{{anther_color}}",
           "]; filaments [", "{{filament_color}}", "]; saturation even. ..." >>] >>

\* FLOWER_TEMPLATES.find(t => t.id === id): the index of the template, 0 if none
FindTemplate(id) ==
    LET hits == {i \in 1..Len(FLOWER_TEMPLATES) : FLOWER_TEMPLATES[i].id = id}
    IN  IF hits = {} THEN 0 ELSE CHOOSE i \in hits : \A j \in hits : i <= j

\* s.replace(new RegExp(placeholder, 'g'), value)
RECURSIVE ReplaceAll(_, _, _)
ReplaceAll(s, placeholder, value) ==
    IF s = << >> THEN << >>
    ELSE (IF Head(s) = placeholder THEN value ELSE <<Head(s)>>)
         \o ReplaceAll(Tail(s), placeholder, value)

RECURSIVE SubstituteFrom(_, _, _, _)
SubstituteFrom(i, vs, variables, prompt) ==
    IF i > Len(vs) THEN prompt
    ELSE LET given == IF Has(variables, vs[i].name) THEN variables[vs[i].name] ELSE << >>
             value == IF Truthy(given) THEN given ELSE vs[i].defaultValue
         IN  SubstituteFrom(i + 1, vs, variables,
                            ReplaceAll(prompt, Placeholder(vs[i].name), value))

processTemplate(template, variables) ==
    SubstituteFrom(1, template.variables, variables, template.promptTemplate)

(***************************************************************************)
(* server/lib/openai.ts.  A call either returns a value or throws.         *)
(***************************************************************************)
Return(v)  == [ok |-> TRUE, value |-> v]
Throw(msg) == [ok |-> FALSE, message |-> msg]

\* a generateImage that passes the requested count to every model
RequestNAlwaysRequested(params) == params.n

\* requestBody.n: dall-e-3 only supports n = 1
RequestN(params) == IF params.model = "dall-e-3" THEN 1 ELSE params.n

\* requestBody[k] = params[k] when the enum-valued params[k] is truthy
WithTruthy(body, params, k) ==
    IF Has(params, k) /\ params[k] # "" THEN With(body, k, params[k]) ELSE body

\* a body that copies any quality the request gives
WithQualityAnyVocabulary(body, params, vocabulary) ==
    IF Has(params, "quality") /\ params.quality # ""
    THEN With(body, "quality", params.quality) ELSE body

\* quality is copied only when it belongs to the model's own vocabulary
WithQuality(body, params, vocabulary) ==
    IF Has(params, "quality") /\ params.quality # "" /\ params.quality \in vocabulary
    THEN With(body, "quality", params.quality) ELSE body

\* if (params.output_compression !== undefined)
WithCompression(body, params) ==
    IF Has(params, "output_compression")
    THEN With(body, "output_compression", params.output_compression) ELSE body

WithDalle3Params(body, params) ==
    IF params.model = "dall-e-3"
    THEN WithTruthy(WithQuality(body, params, {"standard", "hd"}), params, "style")
    ELSE body

WithGptImage1Params(body, params) ==
    IF params.model = "gpt-image-1"
    THEN WithTruthy(
           WithTruthy(
             WithCompression(
               WithTruthy(WithQuality(body, params, {"auto", "high", "medium", "low"}),
                          params, "output_format"),
               params),
             params, "background"),
           params, "moderation")
    ELSE body

\* a generateImage that copies response_format for every model
WithResponseFormatAnyModel(body, params) == WithTruthy(body, params, "response_format")

\* response_format is for dall-e-2 and dall-e-3 only
WithResponseFormat(body, params) ==
    IF params.model # "gpt-image-1"
    THEN WithTruthy(body, params, "response_format") ELSE body

\* a body that carries the user field whenever the request has one
WithUserWheneverPresent(body, params) ==
    IF Has(params, "user") THEN With(body, "user", params.user) ELSE body

\* if (params.user) requestBody.user = params.user
WithUser(body, params) ==
    IF Has(params, "user") /\ Truthy(params.user)
    THEN With(body, "user", params.user) ELSE body

\* the request body generateImage hands to images.generate
generateImageRequestBody(params) ==
    LET b0 == [model |-> params.model, prompt |-> params.prompt, size |-> params.size]
        b1 == With(b0, "n", RequestN(params))
    IN  WithUser(
          WithResponseFormat(
            WithGptImage1Params(WithDalle3Params(b1, params), params),
            params),
          params)

\* image => image.url ? image.url : `data:image/png;base64,${image.b64_json}`
Usable(image) ==
    \/ Has(image, "url") /\ Truthy(image.url)
    \/ Has(image, "b64_json") /\ Truthy(image.b64_json)

\* a conversion that drops the data-URL prefix of a base64 payload
ImageStringRaw(image) ==
    IF Has(image, "url") /\ Truthy(image.url) THEN image.url ELSE image.b64_json

ImageString(image) ==
    IF Has(image, "url") /\ Truthy(image.url)
    THEN image.url
    ELSE <<"data:image/png;base64,">> \o image.b64_json

\* a normalizer that skips the entries it cannot use
RECURSIVE UsableStrings(_)
UsableStrings(data) ==
    IF data = << >> THEN << >>
    ELSE (IF Usable(Head(data)) THEN <<ImageString(Head(data))>> ELSE << >>)
         \o UsableStrings(Tail(data))

NormalizeResponseSkipping(prefix, upstream) ==
    IF ~upstream.ok THEN Throw(prefix \o upstream.message)
    ELSE IF ~Has(upstream, "data") THEN Return(<< >>)
    ELSE Return(UsableStrings(upstream.data))

\* a wrapper whose catch rethrows the upstream error as it is
NormalizeResponseRethrowing(prefix, upstream) ==
    IF ~upstream.ok THEN Throw(upstream.message)
    ELSE IF ~Has(upstream, "data") THEN Return(<< >>)
    ELSE IF \E i \in 1..Len(upstream.data) : ~Usable(upstream.data[i])
         THEN Throw(prefix \o <<"Invalid response format from OpenAI API">>)
         ELSE Return([i \in 1..Len(upstream.data) |-> ImageString(upstream.data[i])])

\* response.data?.map(...) || [], inside try/catch that rethrows with a prefix
NormalizeResponse(prefix, upstream) ==
    IF ~upstream.ok THEN Throw(prefix \o upstream.message)
    ELSE IF ~Has(upstream, "data") THEN Return(<< >>)
    ELSE IF \E i \in 1..Len(upstream.data) : ~Usable(upstream.data[i])
         THEN Throw(prefix \o <<"Invalid response format from OpenAI API">>)
         ELSE Return([i \in 1..Len(upstream.data) |-> ImageString(upstream.data[i])])

\* what generateImage returns or throws once images.generate has settled
generateImage(upstream) ==
    NormalizeResponse(<<"Failed to generate image: ">>, upstream)

(***************************************************************************)
(* server/routes.ts: pieces shared by the handlers.                        *)
(***************************************************************************)
Json(status, body) == [status |-> status, body |-> body]

\* (error as Error).message || fallback, in the handlers' catch blocks
CatchMessage(message, fallback) == IF Truthy(message) THEN message ELSE fallback

\* a key check that only tests that the variable is set
KeyMissingWhenUnset(apiKey) == ~Truthy(apiKey)

\* !apiKey || !apiKey.startsWith("sk-")
KeyMissing(apiKey) == ~Truthy(apiKey) \/ ~StartsWith(apiKey, <<"sk-">>)

KeyNotConfigured == [message |-> <<"OpenAI API key not configured on server">>]

\* the handler answered without awaiting anything
Answer(data, status, body) ==
    [validatedData |-> data, tasks |-> << >>, calls |-> << >>,
     responses |-> <<Json(status, body)>>]

\* the handler is suspended on the upstream calls it issued
Await(data, ts, cs) ==
    [validatedData |-> data, tasks |-> ts, calls |-> cs, responses |-> << >>]

ImagesGenerate(task, params) ==
    [api |-> "images.generate", task |-> task, body |-> generateImageRequestBody(params)]

\* GeminiService.generateImageDescription: the text request to gemini-2.5-flash
GenerateContent(task, prompt) ==
    [api |-> "gemini.generateContent", task |-> task,
     body |-> [model |-> "gemini-2.5-flash",
               text |-> <<"Create a detailed image generation prompt based on this request: ">>
                        \o prompt \o <<". Include specific details ...">>]]

generateImageDescription(outcome) ==
    IF outcome.ok THEN Return(outcome.text)
    ELSE Throw(<<"Gemini description generation failed: ">> \o outcome.message)

(***************************************************************************)
(* POST /api/generate, up to its await.                                    *)
(***************************************************************************)
\* a handler that forgets to filter the Gemini model
UnsupportedModelNever(data) == FALSE

\* filter out the Gemini model for standard generation
UnsupportedModel(data) == data.model = Gemini

\* a handler that hands the request to the image API before it validates it
GenerateHandlerCallingFirst(body, e) ==
    LET issues == ZIssues(generateImageSchema, generateImageRequired, body, {})
        data   == ZOutput(generateImageSchema, generateImageDefaults, body)
    IN  IF issues # << >>
        THEN Await(EmptyObject, <<[pc |-> "image"]>>,
                   <<[api |-> "images.generate", task |-> 1, body |-> body]>>)
        ELSE IF KeyMissing(e.OPENAI_API_KEY)
        THEN Answer(data, 500, KeyNotConfigured)
        ELSE IF UnsupportedModel(data)
        THEN Answer(data, 400,
                    [message |-> <<"Gemini model is only available for flower generation">>])
        ELSE Await(data, <<[pc |-> "image"]>>, <<ImagesGenerate(1, data)>>)

GenerateHandler(body, e) ==
    LET issues == ZIssues(generateImageSchema, generateImageRequired, body, {})
        data   == ZOutput(generateImageSchema, generateImageDefaults, body)
    IN  IF issues # << >>
        THEN Answer(EmptyObject, 500,
                    [message |-> CatchMessage(ZodMessage(issues),
                        <<"Failed to generate image. Please check your prompt and try again.">>)])
        ELSE IF KeyMissing(e.OPENAI_API_KEY)
        THEN Answer(data, 500, KeyNotConfigured)
        ELSE IF UnsupportedModel(data)
        THEN Answer(data, 400,
                    [message |-> <<"Gemini model is only available for flower generation">>])
        ELSE Await(data, <<[pc |-> "image"]>>, <<ImagesGenerate(1, data)>>)

(***************************************************************************)
(* POST /api/flower-generate, up to its first await.                       *)
(***************************************************************************)
FlowerHandler(body, e) ==
    LET issues == ZIssues(flowerGenerationSchema, flowerGenerationRequired, body, {})
        data   == ZOutput(flowerGenerationSchema, flowerGenerationDefaults, body)
        t      == FindTemplate(data.templateId)
        processedPrompt == processTemplate(FLOWER_TEMPLATES[t], data.variables)
        openaiFields == Without(data, {"templateId", "variables", "referenceImages", "model"})
        openaiData == With(With(openaiFields, "model", data.model), "prompt", processedPrompt)
    IN  IF issues # << >>
        THEN Answer(EmptyObject, 500,
                    [message |-> CatchMessage(ZodMessage(issues),
                        <<"Failed to generate flower image. Please check your settings and try again.">>)])
        ELSE IF KeyMissing(e.OPENAI_API_KEY)
        THEN Answer(data, 500, KeyNotConfigured)
        ELSE IF t = 0
        THEN Answer(data, 400, [message |-> <<"Invalid template ID">>])
        ELSE IF data.model = Gemini
        THEN IF ~Truthy(e.GEMINI_API_KEY)
             THEN Answer(data, 500,
                         [message |-> <<"Gemini API key not configured on server">>])
             ELSE Await(data,
                        <<[pc |-> "gemini", processedPrompt |-> processedPrompt]>>,
                        <<GenerateContent(1, processedPrompt)>>)
        ELSE Await(data,
                   <<[pc |-> "image", processedPrompt |-> processedPrompt]>>,
                   <<ImagesGenerate(1, openaiData)>>)

\* a fallback that leaves the model of the request in the image call
FallbackDataKeepingModel(data, enhancedPrompt) ==
    LET baseFields == Without(data, {"templateId", "variables", "referenceImages", "items"})
    IN  With(baseFields, "prompt", enhancedPrompt)

\* the Gemini branch after the text call returned: fall back to gpt-image-1
FallbackData(data, enhancedPrompt) ==
    LET baseFields == Without(data, {"templateId", "variables", "referenceImages", "items"})
    IN  With(With(baseFields, "prompt", enhancedPrompt), "model", "gpt-image-1")

(***************************************************************************)
(* POST /api/batch-flower-generate.  processGenerationTask runs for every  *)
(* item, in item order, up to its first await while the handler maps over  *)
(* the items; Promise.all then waits for all of them.                      *)
(***************************************************************************)
ItemSuccess(item, processedPrompt, imageUrls) ==
    [referenceImageId |-> item.referenceImageId, variables |-> item.variables,
     processedPrompt |-> processedPrompt, imageUrls |-> imageUrls]

\* the catch block of processGenerationTask
ItemFailure(item, template, message) ==
    [referenceImageId |-> item.referenceImageId, variables |-> item.variables,
     processedPrompt |-> processTemplate(template, item.variables),
     imageUrls |-> << >>,
     error |-> CatchMessage(message, <<"Failed to generate image">>)]

\* a task that starts the text rewrite without looking at GEMINI_API_KEY
TaskStartUnchecked(item, data, template, e) ==
    [pc |-> IF data.model = Gemini THEN "gemini" ELSE "image",
     item |-> item, processedPrompt |-> processTemplate(template, item.variables)]

\* processGenerationTask(item) up to its first await
TaskStart(item, data, template, e) ==
    LET processedPrompt == processTemplate(template, item.variables)
    IN  IF data.model = Gemini /\ ~Truthy(e.GEMINI_API_KEY)
        THEN [pc |-> "done", item |-> item, processedPrompt |-> processedPrompt,
              result |-> ItemFailure(item, template,
                                     <<"Gemini API key not configured on server">>)]
        ELSE [pc |-> IF data.model = Gemini THEN "gemini" ELSE "image",
              item |-> item, processedPrompt |-> processedPrompt]

\* a handler that awaits each item before it starts the next: only the first
\* item's call is issued when the handler suspends
TaskCallOneAtATime(i, task, data) ==
    LET openaiFields == Without(data, {"items", "templateId", "model"})
        openaiData == With(With(openaiFields, "model", data.model),
                           "prompt", task.processedPrompt)
    IN  CASE i > 1              -> << >>
          [] task.pc = "gemini" -> <<GenerateContent(i, task.processedPrompt)>>
          [] task.pc = "image"  -> <<ImagesGenerate(i, openaiData)>>
          [] OTHER              -> << >>

\* the upstream call task i issues when it starts, if it issues one
TaskCall(i, task, data) ==
    LET openaiFields == Without(data, {"items", "templateId", "model"})
        openaiData == With(With(openaiFields, "model", data.model),
                           "prompt", task.processedPrompt)
    IN  CASE task.pc = "gemini" -> <<GenerateContent(i, task.processedPrompt)>>
          [] task.pc = "image"  -> <<ImagesGenerate(i, openaiData)>>
          [] OTHER              -> << >>

RECURSIVE Concat(_)
Concat(ss) == IF ss = << >> THEN << >> ELSE Head(ss) \o Concat(Tail(ss))

AllDone(ts) == \A i \in 1..Len(ts) : ts[i].pc = "done"

\* a response that lists the results in the order the tasks ended
BatchResponseAsSettled(ts) ==
    LET Key(i) == IF Has(ts[i], "settledAfter") THEN ts[i].settledAfter ELSE i - 1
        At(r) == CHOOSE i \in 1..Len(ts) : Cardinality({j \in 1..Len(ts) : Key(j) < Key(i)}) = r - 1
    IN  Json(200, [results |-> [r \in 1..Len(ts) |-> ts[At(r)].result]])

\* res.json({ results }) once Promise.all has resolved
BatchResponse(ts) == Json(200, [results |-> [i \in 1..Len(ts) |-> ts[i].result]])

BatchHandler(body, e) ==
    LET issues == ZIssues(batchFlowerGenerationSchema, batchFlowerGenerationRequired,
                          body, {})
        data   == ZOutput(batchFlowerGenerationSchema, flowerGenerationDefaults, body)
        t      == FindTemplate(data.templateId)
        ts     == [i \in 1..Len(data.items) |->
                      TaskStart(data.items[i], data, FLOWER_TEMPLATES[t], e)]
        cs     == Concat([i \in 1..Len(ts) |-> TaskCall(i, ts[i], data)])
    IN  IF issues # << >>
        THEN Answer(EmptyObject, 500,
                    [message |-> CatchMessage(ZodMessage(issues),
                        <<"Failed to generate batch flower images. Please check your settings and try again.">>)])
        ELSE IF KeyMissing(e.OPENAI_API_KEY)
        THEN Answer(data, 500, KeyNotConfigured)
        ELSE IF t = 0
        THEN Answer(data, 400, [message |-> <<"Invalid template ID">>])
        ELSE IF AllDone(ts)
        THEN [validatedData |-> data, tasks |-> ts, calls |-> cs,
              responses |-> <<BatchResponse(ts)>>]
        ELSE Await(data, ts, cs)

(***************************************************************************)
(* Multipart form values are strings: parseInt(s, 10).                     *)
(***************************************************************************)
Digits == <<"0", "1", "2", "3", "4", "5", "6", "7", "8", "9">>

IsDigit(c) == \E d \in 1..Len(Digits) : Digits[d] = c

DigitValue(c) == (CHOOSE d \in 1..Len(Digits) : Digits[d] = c) - 1

RECURSIVE ParseDigits(_, _)
ParseDigits(s, acc) ==
    IF s = << >> \/ ~IsDigit(Head(s)) THEN acc
    ELSE ParseDigits(Tail(s), 10 * acc + DigitValue(Head(s)))

\* s is a sequence of characters
parseInt(s) == IF s = << >> \/ ~IsDigit(Head(s)) THEN NaN ELSE ParseDigits(s, 0)

\* { ...data, n: data.n ? parseInt(data.n, 10) : 1, size: data.size || "1024x1024" }
TransformedData(formData, emptySize, defaultSize) ==
    LET n == IF Has(formData, "n") /\ Truthy(formData.n) THEN parseInt(formData.n) ELSE 1
        size == IF Has(formData, "size") /\ formData.size # emptySize
                THEN formData.size ELSE defaultSize
    IN  With(With(formData, "n", n), "size", size)

(***************************************************************************)
(* editImage and createImageVariations of server/lib/openai.ts.  A buffer  *)
(* is a sequence of bytes.                                                 *)
(***************************************************************************)
\* buffer.toString('hex'), as a sequence of hex digits 0..15
RECURSIVE Hex(_)
Hex(buffer) ==
    IF buffer = << >> THEN << >>
    ELSE <<Head(buffer) \div 16, Head(buffer) % 16>> \o Hex(Tail(buffer))

PngSignature  == <<8, 9, 5, 0, 4, 14, 4, 7>>
JpegSignature == <<15, 15, 13, 8, 15, 15, 14>>

\* a classifier that takes the three-byte JPEG magic number for the signature
MimeTypeJpegMagic(buffer) ==
    IF StartsWith(Hex(buffer), PngSignature) THEN <<"image", "png">>
    ELSE IF StartsWith(Hex(buffer), <<15, 15, 13, 8, 15, 15>>) THEN <<"image", "jpeg">>
    ELSE <<"image", "webp">>

MimeType(buffer) ==
    IF StartsWith(Hex(buffer), PngSignature) THEN <<"image", "png">>
    ELSE IF StartsWith(Hex(buffer), JpegSignature) THEN <<"image", "jpeg">>
    ELSE <<"image", "webp">>

\* new File([buffer], `image${index}.${mimeType.split('/')[1]}`, { type: mimeType })
ConvertedFile(buffer, index) ==
    [name |-> <<"image", index, ".", MimeType(buffer)[2]>>,
     type |-> MimeType(buffer), bytes |-> buffer]

\* a mask labelled like the originals, from its leading bytes
ConvertedMaskSniffed(maskFile) ==
    [name |-> <<"mask.png">>, type |-> MimeType(maskFile), bytes |-> maskFile]

\* new File([maskFile], 'mask.png', { type: 'image/png' })
ConvertedMask(maskFile) ==
    [name |-> <<"mask.png">>, type |-> <<"image", "png">>, bytes |-> maskFile]

\* the image field of an edit body is one File or an array of Files
OneFile(file)   == [kind |-> "file", files |-> <<file>>]
FileList(files) == [kind |-> "array", files |-> files]

\* an image field that hands every model the whole list
EditImagesAllModels(converted, params) ==
    IF Len(converted) = 1 THEN OneFile(converted[1]) ELSE FileList(converted)

\* the image field: dall-e-2 takes the first file, gpt-image-1 takes them all
EditImages(converted, params) ==
    IF params.model = "dall-e-2"
    THEN OneFile(converted[1])
    ELSE IF Len(converted) = 1 THEN OneFile(converted[1]) ELSE FileList(converted)

\* a body that carries the mask for dall-e-2 only
WithMaskBasicOnly(body, maskFile) ==
    IF maskFile # << >> /\ body.model = "dall-e-2"
    THEN With(body, "mask", ConvertedMask(maskFile[1])) ELSE body

\* both branches add the mask when one was uploaded
WithMask(body, maskFile) ==
    IF maskFile # << >> THEN With(body, "mask", ConvertedMask(maskFile[1])) ELSE body

EditGptImage1Params(body, params) ==
    IF params.model = "gpt-image-1"
    THEN WithTruthy(
           WithCompression(
             WithTruthy(WithQuality(body, params, {"auto", "high", "medium", "low"}),
                        params, "output_format"),
             params),
           params, "background")
    ELSE body

\* an edit body that copies response_format for every model
EditResponseFormatAnyModel(body, params) ==
    WithTruthy(body, params, "response_format")

\* response format for dall-e-2 only
EditResponseFormat(body, params) ==
    IF params.model = "dall-e-2"
    THEN WithTruthy(body, params, "response_format") ELSE body

\* the request body editImage hands to images.edit; maskFile is << >> for null
\* and <<buffer>> otherwise; File indices count from 0
editImageRequestBody(imageFiles, maskFile, params) ==
    LET converted == [i \in 1..Len(imageFiles) |-> ConvertedFile(imageFiles[i], i - 1)]
        b0 == [prompt |-> params.prompt, model |-> params.model,
               size |-> params.size, n |-> params.n]
        b1 == With(b0, "image", EditImages(converted, params))
    IN  WithUser(
          EditResponseFormat(
            EditGptImage1Params(WithMask(b1, maskFile), params),
            params),
          params)

editImage(upstream) ==
    NormalizeResponse(<<"Failed to edit image: ">>, upstream)

\* a variations body that names the model, as the other two bodies do
createImageVariationsRequestBodyWithModel(imageFile, params) ==
    WithUser([image |-> [type |-> <<"image", "png">>, bytes |-> imageFile],
              model |-> "dall-e-2",
              n |-> params.n, size |-> params.size,
              response_format |-> params.response_format],
             params)

\* the request body createImageVariations hands to images.createVariation
createImageVariationsRequestBody(imageFile, params) ==
    WithUser([image |-> [type |-> <<"image", "png">>, bytes |-> imageFile],
              n |-> params.n, size |-> params.size,
              response_format |-> params.response_format],
             params)

createImageVariations(upstream) ==
    NormalizeResponse(<<"Failed to create image variations: ">>, upstream)

(***************************************************************************)
(* POST /api/edit and POST /api/variations, up to their await.  files maps *)
(* the index i of each populated originalImage<i> field to its upload;     *)
(* mask and file are << >> or a one-element sequence.                      *)
(***************************************************************************)
\* the field count of upload.fields and the bound of the collecting loop
OriginalImageFields == 16

RECURSIVE Ascending(_)
Ascending(S) ==
    IF S = {} THEN << >>
    ELSE LET m == CHOOSE x \in S : \A y \in S : x <= y
         IN  <<m>> \o Ascending(S \ {m})

\* a collecting loop that stops one field short: for (let i = 0; i < 15; i++)
originalImageBuffersFifteenFields(files) ==
    LET idx == Ascending(DOMAIN files \cap 0..(OriginalImageFields - 2))
    IN  [j \in 1..Len(idx) |-> files[idx[j]].buffer]

\* for (let i = 0; i < 16; i++) if (files[`originalImage${i}`]...) push(buffer)
originalImageBuffers(files) ==
    LET idx == Ascending(DOMAIN files \cap 0..(OriginalImageFields - 1))
    IN  [j \in 1..Len(idx) |-> files[idx[j]].buffer]

EditHandler(editData, files, mask, e) ==
    LET transformedData == TransformedData(editData, << >>, <<"1024x1024">>)
        strings == DOMAIN editData \ {"n"}
        issues == ZIssues(editImageSchema, editImageRequired, transformedData, strings)
        data   == ZOutput(editImageSchema, editImageDefaults, transformedData)
        buffers == originalImageBuffers(files)
        maskImageBuffer == IF mask # << >> THEN <<mask[1].buffer>> ELSE << >>
    IN  IF issues # << >>
        THEN Answer(EmptyObject, 500,
                    [message |-> CatchMessage(ZodMessage(issues),
                        <<"Failed to edit image. Please check your files and prompt.">>)])
        ELSE IF KeyMissing(e.OPENAI_API_KEY)
        THEN Answer(data, 500, KeyNotConfigured)
        ELSE IF Len(buffers) = 0
        THEN Answer(data, 400, [message |-> <<"At least one original image is required">>])
        ELSE Await(data, <<[pc |-> "image"]>>,
                   <<[api |-> "images.edit", task |-> 1,
                      body |-> editImageRequestBody(buffers, maskImageBuffer, data)]>>)

VariationsHandler(variationData, file, e) ==
    LET transformedData == TransformedData(variationData, "", "1024x1024")
        strings == DOMAIN variationData \ {"n"}
        issues == ZIssues(createVariationsSchema, createVariationsRequired,
                          transformedData, strings)
        data   == ZOutput(createVariationsSchema, createVariationsDefaults, transformedData)
    IN  IF issues # << >>
        THEN Answer(EmptyObject, 500,
                    [message |-> CatchMessage(ZodMessage(issues),
                        <<"Failed to create image variations. Please check your image file.">>)])
        ELSE IF KeyMissing(e.OPENAI_API_KEY)
        THEN Answer(data, 500, KeyNotConfigured)
        ELSE IF file = << >>
        THEN Answer(data, 400, [message |-> <<"Image file is required">>])
        ELSE Await(data, <<[pc |-> "image"]>>,
                   <<[api |-> "images.createVariation", task |-> 1,
                      body |-> createImageVariationsRequestBody(file[1].buffer, data)]>>)

(***************************************************************************)
(* The handlers as actions.  One request is followed from its arrival to   *)
(* its response: calls logs every upstream call the handler issued, tasks  *)
(* holds the position of each pending await (one task per request, one per *)
(* item for a batch), responses logs what was sent on res.                 *)
(***************************************************************************)
Install(endpoint, input, h) ==
    /\ req' = [endpoint |-> endpoint, input |-> input]
    /\ validatedData' = h.validatedData
    /\ tasks' = h.tasks
    /\ calls' = h.calls
    /\ responses' = h.responses
    /\ pc' = IF h.responses # << >> THEN "responded" ELSE "waiting"
    /\ UNCHANGED env
    /\ UNCHANGED driveVars

PostGenerate(Bodies) ==
    /\ pc = "idle"
    /\ \E body \in Bodies :
        Install("/api/generate", [body |-> body], GenerateHandler(body, env))

PostFlowerGenerate(Bodies) ==
    /\ pc = "idle"
    /\ \E body \in Bodies :
        Install("/api/flower-generate", [body |-> body], FlowerHandler(body, env))

PostBatchFlowerGenerate(Bodies) ==
    /\ pc = "idle"
    /\ \E body \in Bodies :
        Install("/api/batch-flower-generate", [body |-> body], BatchHandler(body, env))

PostEdit(Forms) ==
    /\ pc = "idle"
    /\ \E form \in Forms :
        Install("/api/edit", form, EditHandler(form.body, form.files, form.mask, env))

PostVariations(Forms) ==
    /\ pc = "idle"
    /\ \E form \in Forms :
        Install("/api/variations", form, VariationsHandler(form.body, form.file, env))

\* the wrapper of lib/openai.ts the endpoint awaits
Wrapper(endpoint, upstream) ==
    CASE endpoint = "/api/edit"       -> editImage(upstream)
      [] endpoint = "/api/variations" -> createImageVariations(upstream)
      [] OTHER                        -> generateImage(upstream)

CatchFallback(endpoint) ==
    CASE endpoint = "/api/generate" ->
            <<"Failed to generate image. Please check your prompt and try again.">>
      [] endpoint = "/api/flower-generate" ->
            <<"Failed to generate flower image. Please check your settings and try again.">>
      [] endpoint = "/api/edit" ->
            <<"Failed to edit image. Please check your files and prompt.">>
      [] endpoint = "/api/variations" ->
            <<"Failed to create image variations. Please check your image file.">>

\* the rest of a single-call handler once its awaited wrapper settled with r
Continuation(endpoint, r) ==
    IF r.ok THEN Json(200, [imageUrls |-> r.value])
    ELSE Json(500, [message |-> CatchMessage(r.message, CatchFallback(endpoint))])

IsBatch == req.endpoint = "/api/batch-flower-generate"

\* a task whose failure rejects Promise.all: the handler's catch answers 500
ItemSettledAborting(i, task, r) ==
    LET result == ItemSuccess(task.item, task.processedPrompt, IF r.ok THEN r.value ELSE << >>)
        ts == [tasks EXCEPT ![i] = With(With(task, "pc", "done"), "result", result)]
    IN  /\ tasks' = ts
        /\ IF ~r.ok
           THEN /\ responses' = Append(responses, Json(500, [message |-> r.message]))
                /\ pc' = "responded"
           ELSE IF AllDone(ts)
           THEN responses' = Append(responses, BatchResponse(ts)) /\ pc' = "responded"
           ELSE UNCHANGED <<responses, pc>>

\* a batch that answers as soon as its first item ends, as Promise.race would
ItemSettledAnsweringFirst(i, task, r) ==
    LET result == IF r.ok THEN ItemSuccess(task.item, task.processedPrompt, r.value)
                  ELSE ItemSuccess(task.item, task.processedPrompt, << >>)
        ts == [tasks EXCEPT ![i] =
                  With(With(With(task, "pc", "done"), "result", result), "settledAfter", 0)]
    IN  /\ tasks' = ts
        /\ responses' = Append(responses, Json(200, [results |-> <<result>>]))
        /\ pc' = "responded"

\* task i of the batch ends with r: the item's result, the number of tasks
\* that had ended before it, and the response once every item has a result
ItemSettled(i, task, r) ==
    LET item == task.item
        template == FLOWER_TEMPLATES[FindTemplate(validatedData.templateId)]
        result == IF r.ok THEN ItemSuccess(item, task.processedPrompt, r.value)
                  ELSE ItemFailure(item, template, r.message)
        settledAfter == Cardinality({j \in 1..Len(tasks) : tasks[j].pc = "done"})
        ts == [tasks EXCEPT ![i] =
                  With(With(With(task, "pc", "done"), "result", result),
                       "settledAfter", settledAfter)]
    IN  /\ tasks' = ts
        /\ IF AllDone(ts)
           THEN responses' = Append(responses, BatchResponse(ts)) /\ pc' = "responded"
           ELSE UNCHANGED <<responses, pc>>

\* an image call that is issued once more when upstream rejects it
ImageSettlesRetrying(Outcomes) ==
    /\ pc = "waiting"
    /\ \E i \in 1..Len(tasks), upstream \in Outcomes :
        /\ tasks[i].pc = "image"
        /\ LET r == Wrapper(req.endpoint, upstream)
               settled == With(With(tasks[i], "upstream", upstream), "returned", r)
               issued == {j \in 1..Len(calls) :
                            calls[j].task = i /\ calls[j].api # "gemini.generateContent"}
           IN  IF ~upstream.ok /\ Cardinality(issued) = 1
               THEN /\ calls' = Append(calls, calls[CHOOSE j \in issued : TRUE])
                    /\ UNCHANGED <<tasks, responses, pc>>
               ELSE IF IsBatch
               THEN /\ ItemSettled(i, settled, r)
                    /\ UNCHANGED calls
               ELSE /\ tasks' = [tasks EXCEPT ![i] = With(settled, "pc", "done")]
                    /\ responses' = Append(responses, Continuation(req.endpoint, r))
                    /\ pc' = "responded"
                    /\ UNCHANGED calls
        /\ UNCHANGED <<env, req, validatedData>>
        /\ UNCHANGED driveVars

\* the image call of task i settles with the upstream outcome
ImageSettles(Outcomes) ==
    /\ pc = "waiting"
    /\ \E i \in 1..Len(tasks), upstream \in Outcomes :
        /\ tasks[i].pc = "image"
        /\ LET r == Wrapper(req.endpoint, upstream)
               settled == With(With(tasks[i], "upstream", upstream), "returned", r)
           IN  IF IsBatch
               THEN /\ ItemSettled(i, settled, r)
                    /\ UNCHANGED calls
               ELSE /\ tasks' = [tasks EXCEPT ![i] = With(settled, "pc", "done")]
                    /\ responses' = Append(responses, Continuation(req.endpoint, r))
                    /\ pc' = "responded"
                    /\ UNCHANGED calls
        /\ UNCHANGED <<env, req, validatedData>>
        /\ UNCHANGED driveVars

\* the text call of task i settles: on success the image call follows
GeminiSettles(Outcomes) ==
    /\ pc = "waiting"
    /\ \E i \in 1..Len(tasks), outcome \in Outcomes :
        /\ tasks[i].pc = "gemini"
        /\ LET d == generateImageDescription(outcome)
           IN  IF d.ok
               THEN /\ tasks' = [tasks EXCEPT ![i] =
                                    With(With(@, "pc", "image"), "enhancedPrompt", d.value)]
                    /\ calls' = Append(calls, ImagesGenerate(i, FallbackData(validatedData, d.value)))
                    /\ UNCHANGED <<responses, pc>>
               ELSE IF IsBatch
               THEN /\ ItemSettled(i, tasks[i], d)
                    /\ UNCHANGED calls
               ELSE /\ tasks' = [tasks EXCEPT ![i] = With(@, "pc", "done")]
                    /\ responses' = Append(responses, Continuation(req.endpoint, d))
                    /\ pc' = "responded"
                    /\ UNCHANGED calls
        /\ UNCHANGED <<env, req, validatedData>>
        /\ UNCHANGED driveVars

(***************************************************************************)
(* Inputs.  Requests, server configurations and upstream outcomes are      *)
(* drawn from the sets below; every field has valid and invalid values.    *)
(***************************************************************************)
\* values a JSON body may give a field
InputValues(k) ==
    CASE k = "prompt"             -> {<< >>, <<"a rose">>}
      [] k = "model"              -> ModelEnum \cup {"sdxl"}
      [] k = "size"               -> {<< >>, <<"1024x1024">>}
      [] k = "n"                  -> {0, 1, 10, 11}
      [] k = "quality"            -> QualityEnum \cup {"ultra"}
      [] k = "style"              -> {"vivid", "comic"}
      [] k = "response_format"    -> {"url", "b64_json", "png"}
      [] k = "output_format"      -> {"jpeg", "gif"}
      [] k = "output_compression" -> {0, 100, 101}
      [] k = "background"         -> {"transparent", "blue"}
      [] k = "moderation"         -> {"low", "off"}
      [] k = "user"               -> {<< >>, <<"user-1">>}
      [] k = "templateId"         -> {<<"single-branch">>, <<"rose-wall">>}
      [] k = "variables"          -> {EmptyObject, [flower_name |-> <<"Rose">>]}

\* values a multipart form may give a field: always strings
FormValues(k) ==
    CASE k = "prompt"             -> {<< >>, <<"add a hat">>}
      [] k = "model"              -> {"dall-e-2", "gpt-image-1", "dall-e-3"}
      [] k = "size"               -> {<< >>, <<"512x512">>}
      [] k = "n"                  -> {<< >>, <<"0">>, <<"3">>, <<"1", "1">>, <<"x">>}
      [] k = "quality"            -> {"standard", "high", "hd"}
      [] k = "response_format"    -> {"url", "b64_json"}
      [] k = "output_format"      -> {"webp"}
      [] k = "output_compression" -> {<<"5", "0">>}
      [] k = "background"         -> {"opaque"}
      [] k = "user"               -> {<< >>, <<"user-1">>}

\* the same for /api/variations, whose size is an enum
VariationValues(k) ==
    CASE k = "size"               -> {"", "512x512", "64x64"}
      [] k = "n"                  -> {<< >>, <<"0">>, <<"3">>, <<"1", "1">>, <<"x">>}
      [] k = "response_format"    -> {"url", "b64_json", "png"}
      [] k = "user"               -> {<< >>, <<"user-1">>}

\* the objects that give at most max of the keys a value
RECURSIVE JsonObjects(_, _)
JsonObjects(keys, max) ==
    IF keys = {} \/ max = 0 THEN {EmptyObject}
    ELSE LET k == CHOOSE x \in keys : TRUE
         IN  JsonObjects(keys \ {k}, max)
             \cup {With(o, k, v) : o \in JsonObjects(keys \ {k}, max - 1), v \in InputValues(k)}

RECURSIVE FormObjects(_, _)
FormObjects(keys, max) ==
    IF keys = {} \/ max = 0 THEN {EmptyObject}
    ELSE LET k == CHOOSE x \in keys : TRUE
         IN  FormObjects(keys \ {k}, max)
             \cup {With(o, k, v) : o \in FormObjects(keys \ {k}, max - 1), v \in FormValues(k)}

RECURSIVE VariationObjects(_, _)
VariationObjects(keys, max) ==
    IF keys = {} \/ max = 0 THEN {EmptyObject}
    ELSE LET k == CHOOSE x \in keys : TRUE
         IN  VariationObjects(keys \ {k}, max)
             \cup {With(o, k, v) : o \in VariationObjects(keys \ {k}, max - 1),
                                   v \in VariationValues(k)}

Merge(a, b) == a @@ b

GenerateExtraKeys ==
    {"size", "n", "quality", "style", "response_format", "output_format",
     "output_compression", "background", "moderation", "user"}

EditExtraKeys ==
    {"size", "n", "quality", "response_format", "output_format",
     "output_compression", "background", "user"}

GenerateBodies ==
    {Merge(core, extra) : core \in JsonObjects({"prompt", "model"}, 2),
                          extra \in JsonObjects(GenerateExtraKeys, MaxExtras)}

FlowerBodies ==
    {Merge(core, extra) : core \in JsonObjects({"templateId", "variables", "model"}, 3),
                          extra \in JsonObjects(GenerateExtraKeys, MaxExtras)}

\* /api/batch-flower-generate varies the fields whose handling depends on the
\* model
FlowerExtraKeys == {"n", "response_format", "user"}

\* item i of a batch; the odd items leave every variable to its default
BatchItem(i) ==
    [referenceImageId |-> <<"ref", i>>,
     variables |-> IF i % 2 = 1 THEN EmptyObject ELSE [flower_name |-> <<"Rose">>]]

\* the lists of 0..MaxItems items, and one list whose item has no id
ItemLists ==
    {[i \in 1..k |-> BatchItem(i)] : k \in 0..MaxItems}
    \cup {<<[referenceImageId |-> << >>, variables |-> EmptyObject]>>}

BatchBodies ==
    {With(Merge(core, extra), "items", items) :
        core \in JsonObjects({"templateId", "model"}, 2),
        extra \in JsonObjects(FlowerExtraKeys, MaxExtras),
        items \in ItemLists}
    \cup JsonObjects({"templateId"}, 1)

\* uploads: leading bytes of a PNG, a JFIF JPEG, a JPEG without APPn marker,
\* a RIFF/WEBP file and a truncated file, with the type the uploader declared
Png  == <<137, 80, 78, 71, 13>>
Jpeg == <<255, 216, 255, 224, 0>>
JpegDb == <<255, 216, 255, 219>>
Webp == <<82, 73, 70, 70>>
Short == <<137, 80>>

Upload(buffer, mimetype) == [buffer |-> buffer, mimetype |-> mimetype]

\* the uploads the fileFilter of multer lets through on originalImage<i>
OriginalUploads ==
    {Upload(b, m) : b \in {Png, Jpeg, JpegDb, Webp, Short},
                    m \in {"image/png", "image/jpeg", "image/webp"}}

MaskUploads == {Upload(b, m) : b \in {Png, Jpeg, Short}, m \in {"image/png", "image/jpeg"}}

\* a form of /api/edit
EditForm(body, files, mask) == [body |-> body, files |-> files, mask |-> mask]

NoFiles == [i \in {} |-> Upload(Png, "image/png")]

PlainUploads ==
    { [files |-> NoFiles, mask |-> << >>],
      [files |-> (0 :> Upload(Png, "image/png")), mask |-> << >>],
      [files |-> (1 :> Upload(Jpeg, "image/jpeg")) @@ (0 :> Upload(Png, "image/png")),
       mask |-> <<Upload(Jpeg, "image/jpeg")>>] }

EditForms ==
    {EditForm(Merge(core, extra), u.files, u.mask) :
        core \in FormObjects({"prompt", "model"}, 2),
        extra \in FormObjects(EditExtraKeys, MaxExtras),
        u \in PlainUploads}

\* a form of /api/variations that gives every field but user
PlainVariationForms ==
    {[body |-> [n |-> <<"3">>, size |-> "512x512", response_format |-> "url"],
      file |-> <<Upload(Png, "image/png")>>]}

VariationForms ==
    {[body |-> body, file |-> file] :
        body \in VariationObjects({"n", "size", "response_format", "user"}, MaxExtras + 1),
        file \in {<< >>, <<Upload(Png, "image/png")>>}}
    \cup PlainVariationForms

\* server configurations: OPENAI_API_KEY unset, malformed, well-formed;
\* GEMINI_API_KEY unset or set (an unset variable and "" are both falsy)
Envs ==
    [OPENAI_API_KEY : {<< >>, <<"pk-", "live">>, <<"sk-", "live">>},
     GEMINI_API_KEY : {<< >>, <<"AIza">>}]

\* what the image API may answer: a rejection with a message, a body without
\* data, or a data list whose entries have a url, a b64_json, both or neither
UpstreamMessages == {<< >>, <<"429 Rate limit exceeded">>}

Images ==
    { [url |-> <<"https://img/1">>],
      [b64_json |-> <<"aGVsbG8=">>],
      [url |-> << >>, b64_json |-> <<"d29ybGQ=">>],
      [revised_prompt |-> <<"a red rose">>],
      [b64_json |-> << >>] }

SeqsUpTo(S, n) == UNION {[1..k -> S] : k \in 0..n}

Rejected(m) == [ok |-> FALSE, message |-> m]

ImageOutcomes ==
    {Rejected(m) : m \in UpstreamMessages}
    \cup {[ok |-> TRUE]}
    \cup {[ok |-> TRUE, data |-> d] : d \in SeqsUpTo(Images, MaxImages)}

BriefOutcomes ==
    { Rejected(<<"429 Rate limit exceeded">>),
      [ok |-> TRUE, data |-> <<[url |-> <<"https://img/1">>]>>],
      [ok |-> TRUE, data |-> [i \in 1..3 |-> [url |-> <<"https://img/", i>>]]] }

GeminiOutcomes ==
    { [ok |-> TRUE, text |-> <<"a detailed studio photo of a rose">>],
      [ok |-> TRUE, text |-> << >>],
      Rejected(<<"503 model overloaded">>) }

(***************************************************************************)
(* Google Drive endpoints (server/routes.ts) over the one DriveService of  *)
(* server/lib/drive.ts.  The module exports a single DriveService whose    *)
(* OAuth2 client is created once; oauth2Client is the credentials that     *)
(* client holds.  Every Drive client is built with auth: this.oauth2Client *)
(* and so sends a call with the credentials the client holds when the call *)
(* is issued.  A handler runs without interruption up to its next await;   *)
(* between two awaits the handlers of other requests may run.              *)
(***************************************************************************)
Connections == 1..MaxConnections

IdleConnection ==
    [pc |-> "idle", req |-> [endpoint |-> "none", input |-> EmptyObject],
     breadcrumbs |-> 0, responses |-> << >>]

\* JSON.stringify of a token object with the access token a
TokensJson(a) == <<"{\"access_token\":\"", a, "\"}">>

\* JSON.parse of the tokens string: the token object, or a SyntaxError
JSONParse(text) ==
    IF /\ Len(text) = 3
       /\ text[1] = "{\"access_token\":\""
       /\ text[3] = "\"}"
    THEN [ok |-> TRUE, value |-> [access_token |-> <<text[2]>>]]
    ELSE [ok |-> FALSE, message |-> <<"Unexpected end of JSON input">>]

\* !x of a property that may be absent
Falsy(o, k) == ~Has(o, k) \/ o[k] = << >>

\* res.status(status).json(body) on connection c, which ends the handler
DriveAnswer(c, r, status, body) ==
    driveRequests' = [driveRequests EXCEPT ![c] =
        [pc |-> "responded", req |-> r, breadcrumbs |-> @.breadcrumbs,
         responses |-> Append(@.responses, [status |-> status, body |-> body])]]

\* the handler of connection c stops at an await
DriveAwait(c, r, at, breadcrumbs) ==
    driveRequests' = [driveRequests EXCEPT ![c] =
        [pc |-> at, req |-> r, breadcrumbs |-> breadcrumbs, responses |-> @.responses]]

\* a Drive API call issued on behalf of connection c: it carries the
\* credentials the shared OAuth2 client holds at that moment
DriveApiCall(c, api, credentials) ==
    [conn |-> c, api |-> api, credentials |-> credentials]

\* the body of the 500 answer of each handler's catch block
DriveFailure(endpoint, error) ==
    CASE endpoint = "/api/drive/files" ->
            [message |-> <<"Failed to list Drive files">>]
      [] endpoint = "/api/drive/file/:fileId" ->
            [message |-> <<"Failed to get Drive file">>]
      [] endpoint = "/api/drive/upload-image" ->
            [message |-> <<"Failed to upload image to Drive">>, error |-> error]
      [] endpoint = "/api/drive/create-folder" ->
            [message |-> <<"Failed to create folder">>, error |-> error]

TokensRequired == [message |-> <<"Drive authentication tokens required">>]

\* driveService.setCredentials(JSON.parse(tokens)) followed by the first
\* step of the service method, up to its first await
setCredentials(c, r, api, at) ==
    LET parsedTokens == JSONParse(r.input.tokens)
    IN  IF ~parsedTokens.ok
        THEN /\ DriveAnswer(c, r, 500, DriveFailure(r.endpoint, parsedTokens.message))
             /\ UNCHANGED <<oauth2Client, driveCalls>>
        ELSE /\ oauth2Client' = parsedTokens.value
             /\ DriveAwait(c, r, at, 0)
             /\ driveCalls' = IF api = "fetch" THEN driveCalls
                              ELSE Append(driveCalls, DriveApiCall(c, api, parsedTokens.value))

\* GET /api/drive/files
GetDriveFiles(Queries) ==
    \E c \in Connections :
        /\ driveRequests[c].pc = "idle"
        /\ \E query \in Queries :
            LET r == [endpoint |-> "/api/drive/files", input |-> query]
            IN  IF Falsy(query, "tokens")
                THEN /\ DriveAnswer(c, r, 401, TokensRequired)
                     /\ UNCHANGED <<oauth2Client, driveCalls>>
                ELSE IF Falsy(query, "folderId")
                THEN setCredentials(c, r, "files.list", "listFolders")
                ELSE setCredentials(c, r, "files.get", "folderInfo")
        /\ UNCHANGED imageVars

\* GET /api/drive/file/:fileId
GetDriveFile(Queries) ==
    \E c \in Connections :
        /\ driveRequests[c].pc = "idle"
        /\ \E query \in Queries :
            LET r == [endpoint |-> "/api/drive/file/:fileId", input |-> query]
            IN  IF Falsy(query, "tokens")
                THEN /\ DriveAnswer(c, r, 401, TokensRequired)
                     /\ UNCHANGED <<oauth2Client, driveCalls>>
                ELSE setCredentials(c, r, "files.get", "getFile")
        /\ UNCHANGED imageVars

\* POST /api/drive/upload-image
PostDriveUploadImage(Bodies) ==
    \E c \in Connections :
        /\ driveRequests[c].pc = "idle"
        /\ \E body \in Bodies :
            LET r == [endpoint |-> "/api/drive/upload-image", input |-> body]
            IN  IF Falsy(body, "tokens")
                THEN /\ DriveAnswer(c, r, 401, TokensRequired)
                     /\ UNCHANGED <<oauth2Client, driveCalls>>
                ELSE IF Falsy(body, "imageUrl")
                THEN /\ DriveAnswer(c, r, 400, [message |-> <<"Image URL is required">>])
                     /\ UNCHANGED <<oauth2Client, driveCalls>>
                ELSE IF Falsy(body, "fileName")
                THEN /\ DriveAnswer(c, r, 400, [message |-> <<"File name is required">>])
                     /\ UNCHANGED <<oauth2Client, driveCalls>>
                ELSE setCredentials(c, r, "fetch", "fetch")
        /\ UNCHANGED imageVars

\* POST /api/drive/create-folder
PostDriveCreateFolder(Bodies) ==
    \E c \in Connections :
        /\ driveRequests[c].pc = "idle"
        /\ \E body \in Bodies :
            LET r == [endpoint |-> "/api/drive/create-folder", input |-> body]
            IN  IF Falsy(body, "tokens")
                THEN /\ DriveAnswer(c, r, 401, TokensRequired)
                     /\ UNCHANGED <<oauth2Client, driveCalls>>
                ELSE IF Falsy(body, "name")
                THEN /\ DriveAnswer(c, r, 400, [message |-> <<"Folder name is required">>])
                     /\ UNCHANGED <<oauth2Client, driveCalls>>
                ELSE setCredentials(c, r, "files.create", "createFolder")
        /\ UNCHANGED imageVars

\* the next Drive call of the handler of connection c, issued after an await
\* with whatever credentials the shared client holds by then
DriveNext(c, api, at, breadcrumbs) ==
    /\ DriveAwait(c, driveRequests[c].req, at, breadcrumbs)
    /\ driveCalls' = Append(driveCalls, DriveApiCall(c, api, oauth2Client))

\* the handler's catch block, or its success answer
DriveFinish(c, outcome, body) ==
    /\ IF outcome.ok
       THEN DriveAnswer(c, driveRequests[c].req, 200, body)
       ELSE DriveAnswer(c, driveRequests[c].req, 500,
                        DriveFailure(driveRequests[c].req.endpoint, outcome.message))
    /\ UNCHANGED driveCalls

\* getFilesAndFoldersStructure after files.get of the folder: a failure is
\* logged and skipped, a folder with a parent starts buildBreadcrumbs
FolderInfoSettled(c, outcome) ==
    IF outcome.ok /\ outcome.parents
    THEN DriveNext(c, "files.get", "buildBreadcrumbs", 1)
    ELSE DriveNext(c, "files.list", "listFolders", IF outcome.ok THEN 1 ELSE 0)

\* buildBreadcrumbs after files.get of a parent: stop on a failure, on
\* "My Drive" and at the top of the chain, else climb
BreadcrumbSettled(c, outcome) ==
    LET n == driveRequests[c].breadcrumbs
    IN  IF ~outcome.ok \/ outcome.myDrive
        THEN DriveNext(c, "files.list", "listFolders", n)
        ELSE IF outcome.parents
        THEN DriveNext(c, "files.get", "buildBreadcrumbs", n + 1)
        ELSE DriveNext(c, "files.list", "listFolders", n + 1)

\* getFilesAndFoldersStructure after listFolders: listFiles follows
ListFoldersSettled(c, outcome) ==
    IF outcome.ok
    THEN DriveNext(c, "files.list", "listFiles", driveRequests[c].breadcrumbs)
    ELSE DriveFinish(c, outcome, EmptyObject)

\* uploadImageFromUrl after the fetch of the image: uploadFile follows
FetchSettled(c, outcome) ==
    IF outcome.ok
    THEN DriveNext(c, "files.create", "uploadFile", 0)
    ELSE DriveFinish(c, outcome, EmptyObject)

\* what an awaited Drive call or fetch may settle with, for a folder that
\* has n folders above it recorded so far
DriveOutcomes(n) ==
    {[ok |-> FALSE, message |-> <<"403 insufficient permissions">>]}
    \cup [ok : {TRUE}, parents : {p \in BOOLEAN : p => n < MaxDepth}, myDrive : BOOLEAN]

\* the awaited call of some connection settles and its handler runs on to
\* the next await or to its response
DriveSettles ==
    \E c \in Connections :
        LET at == driveRequests[c].pc
        IN  /\ at \notin {"idle", "responded"}
            /\ \E outcome \in DriveOutcomes(driveRequests[c].breadcrumbs + 1) :
                CASE at = "folderInfo"       -> FolderInfoSettled(c, outcome)
                  [] at = "buildBreadcrumbs" -> BreadcrumbSettled(c, outcome)
                  [] at = "listFolders"      -> ListFoldersSettled(c, outcome)
                  [] at = "listFiles"        ->
                        DriveFinish(c, outcome, [folders |-> << >>])
                  [] at = "getFile"          ->
                        DriveFinish(c, outcome, [buffer |-> << >>])
                  [] at = "fetch"            -> FetchSettled(c, outcome)
                  [] at = "uploadFile"       ->
                        DriveFinish(c, outcome, [success |-> TRUE])
                  [] at = "createFolder"     ->
                        DriveFinish(c, outcome, [success |-> TRUE])
            /\ UNCHANGED oauth2Client
            /\ UNCHANGED imageVars

\* the tokens parameter: empty, cut short, or one of two token objects
TokenStrings ==
    {<< >>, <<"{\"access_token\":\"", "ya29.A">>, TokensJson("ya29.A"), TokensJson("ya29.B")}

\* the query or body objects over the given optional string fields, with
\* and without tokens
DriveInputs(fields) ==
    LET inputs == UNION {[S -> {<<"x">>}] : S \in SUBSET fields}
    IN  inputs \cup {With(i, "tokens", t) : i \in inputs, t \in TokenStrings}

(***************************************************************************)
(* Specifications.                                                         *)
(***************************************************************************)
Init ==
    /\ env \in Envs
    /\ pc = "idle"
    /\ req = [endpoint |-> "none", input |-> EmptyObject]
    /\ validatedData = EmptyObject
    /\ tasks = << >>
    /\ calls = << >>
    /\ responses = << >>
    /\ oauth2Client = EmptyObject
    /\ driveRequests = [c \in Connections |-> IdleConnection]
    /\ driveCalls = << >>

\* every request shape, brief upstream outcomes
Next ==
    \/ PostGenerate(GenerateBodies)
    \/ PostFlowerGenerate(FlowerBodies)
    \/ PostBatchFlowerGenerate(BatchBodies)
    \/ PostEdit(EditForms)
    \/ PostVariations(VariationForms)
    \/ GeminiSettles(GeminiOutcomes)
    \/ ImageSettles(BriefOutcomes)

Spec == Init /\ [][Next]_vars

\* one well-formed request of each shape, every upstream outcome
PlainGenerateBodies ==
    {[prompt |-> <<"a rose">>, model |-> m] : m \in {"dall-e-2", "gpt-image-1"}}

PlainFlowerBodies ==
    {[templateId |-> <<"bouquet">>, variables |-> [petal_color |-> <<"red">>], model |-> m] :
        m \in {"dall-e-3", Gemini}}

PlainBatchBodies ==
    {[templateId |-> <<"bouquet">>, items |-> <<BatchItem(1), BatchItem(2)>>, model |-> m] :
        m \in {"gpt-image-1", Gemini}}

PlainEditForms ==
    {EditForm([prompt |-> <<"add a hat">>, model |-> m],
              (0 :> Upload(Png, "image/png")), << >>) : m \in {"dall-e-2", "gpt-image-1"}}

NextNormalizer ==
    \/ PostGenerate(PlainGenerateBodies)
    \/ PostFlowerGenerate(PlainFlowerBodies)
    \/ PostBatchFlowerGenerate(PlainBatchBodies)
    \/ PostEdit(PlainEditForms)
    \/ PostVariations(PlainVariationForms)
    \/ GeminiSettles(GeminiOutcomes)
    \/ ImageSettles(ImageOutcomes)

SpecNormalizer == Init /\ [][NextNormalizer]_vars

\* the populated originalImage<i> fields of an edit form: up to MaxFiles of
\* the first, the second and the last field
UploadFields == {0, 1, OriginalImageFields - 1}

FileMaps ==
    UNION {[S -> OriginalUploads] :
             S \in {T \in SUBSET UploadFields : Cardinality(T) <= MaxFiles}}

UploadEditForms ==
    {EditForm([prompt |-> <<"add a hat">>, model |-> m], files, mask) :
        m \in {"dall-e-2", "gpt-image-1"},
        files \in FileMaps,
        mask \in {<< >>} \cup {<<u>> : u \in MaskUploads}}

NextEdit ==
    \/ PostEdit(UploadEditForms)
    \/ ImageSettles(BriefOutcomes)

\* one edit request with every combination of uploads
SpecEdit == Init /\ [][NextEdit]_vars

NextDrive ==
    \/ GetDriveFiles(DriveInputs({"folderId"}))
    \/ GetDriveFile(DriveInputs({}))
    \/ PostDriveUploadImage(DriveInputs({"imageUrl", "fileName"}))
    \/ PostDriveCreateFolder(DriveInputs({"name"}))
    \/ DriveSettles

\* concurrent requests on the four Drive endpoints that take tokens
SpecDrive == Init /\ [][NextDrive]_vars

(***************************************************************************)
(* Properties.                                                             *)
(***************************************************************************)
\* the bodies handed to images.generate so far
GenerateCallBodies ==
    {calls[j].body : j \in {i \in 1..Len(calls) : calls[i].api = "images.generate"}}

\* the count the request asked for: n of the JSON body, 1 when it has none
RequestedN == IF Has(req.input.body, "n") THEN req.input.body.n ELSE 1

\* C1: every body handed to images.generate with model dall-e-3 has n = 1,
\* whatever count in 1..10 the request asked for, and with dall-e-2 or
\* gpt-image-1 it has the requested count; on /api/generate,
\* /api/flower-generate and /api/batch-flower-generate alike.
C1_DallE3ForcesSingleImage ==
    \A body \in GenerateCallBodies :
        /\ RequestedN \in 1..10
        /\ body.model = "dall-e-3" => body.n = 1
        /\ body.model \in {"dall-e-2", "gpt-image-1"} => body.n = RequestedN

C1_Witness ==
    /\ req.endpoint = "/api/batch-flower-generate"
    /\ RequestedN = 10
    /\ \E body \in GenerateCallBodies : body.model = "dall-e-3" /\ body.n = 1

\* C2: a body handed to images.generate with model gpt-image-1 never has a
\* response_format key, whatever response_format the request carried; this
\* includes the calls of the Gemini fallback of the two flower endpoints.
C2_NoResponseFormatForGptImage1 ==
    \A body \in GenerateCallBodies :
        body.model = "gpt-image-1" => ~Has(body, "response_format")

C2_Witness ==
    /\ req.endpoint = "/api/flower-generate"
    /\ Has(req.input.body, "model")
    /\ req.input.body.model = Gemini
    /\ Has(req.input.body, "response_format")
    /\ \E body \in GenerateCallBodies : body.model = "gpt-image-1"

\* the keys each model of the image API accepts in a generation body
AcceptedKeys(model) ==
    CASE model = "dall-e-2" ->
            {"model", "prompt", "size", "n", "response_format", "user"}
      [] model = "dall-e-3" ->
            {"model", "prompt", "size", "n", "quality", "style", "response_format", "user"}
      [] model = "gpt-image-1" ->
            {"model", "prompt", "size", "n", "quality", "output_format",
             "output_compression", "background", "moderation", "user"}

\* the value of key k is neither undefined nor an empty string
NonEmptyValue(k, v) ==
    CASE k \in {"prompt", "size", "user"}     -> v # << >>
      [] k \in {"n", "output_compression"}    -> TRUE
      [] OTHER                                -> v # ""

C3_OnlyAcceptedKeys ==
    \A body \in GenerateCallBodies : DOMAIN body \subseteq AcceptedKeys(body.model)

\* C3: the body generateImage builds for a schema-valid request contains only
\* keys the selected model accepts, and no key of it has a null, undefined or
\* empty-string value.
C3_OnlyAcceptedNonEmptyFields ==
    \A body \in GenerateCallBodies :
        /\ DOMAIN body \subseteq AcceptedKeys(body.model)
        /\ \A k \in DOMAIN body : NonEmptyValue(k, body[k])

\* the request named the model m and passed its schema
ValidatedModelIs(m) == Has(validatedData, "model") /\ validatedData.model = m

\* OPENAI_API_KEY is unset or does not start with "sk-"
OpenAiKeyUnusable == env.OPENAI_API_KEY = << >> \/ Head(env.OPENAI_API_KEY) # "sk-"

\* C4 as claimed: a POST /api/generate naming the Gemini model is answered
\* with HTTP 400 in every server configuration, and never reaches generateImage.
C4_GeminiOnGenerateAlways400 ==
    (req.endpoint = "/api/generate" /\ ValidatedModelIs(Gemini)) =>
        /\ calls = << >>
        /\ Len(responses) = 1
        /\ responses[1].status = 400

\* C4 as amended: a schema-valid POST /api/generate naming the Gemini model
\* never reaches generateImage or the image API in any server configuration;
\* it is answered with HTTP 400 when OPENAI_API_KEY is configured and with the
\* HTTP 500 of the key check when it is not.
C4_GeminiOnGenerateRejected ==
    (req.endpoint = "/api/generate" /\ ValidatedModelIs(Gemini)) =>
        /\ calls = << >>
        /\ pc = "responded"
        /\ responses =
             IF OpenAiKeyUnusable
             THEN <<Json(500, [message |-> <<"OpenAI API key not configured on server">>])>>
             ELSE <<Json(400, [message |->
                        <<"Gemini model is only available for flower generation">>])>>

C4_Witness ==
    /\ req.endpoint = "/api/generate"
    /\ ValidatedModelIs(Gemini)
    /\ ~OpenAiKeyUnusable
    /\ Len(responses) = 1
    /\ responses[1].status = 400

\* the schema violations of the request being handled
RequestIssues ==
    CASE req.endpoint = "/api/generate" ->
            ZIssues(generateImageSchema, generateImageRequired, req.input.body, {})
      [] req.endpoint = "/api/flower-generate" ->
            ZIssues(flowerGenerationSchema, flowerGenerationRequired, req.input.body, {})
      [] req.endpoint = "/api/batch-flower-generate" ->
            ZIssues(batchFlowerGenerationSchema, batchFlowerGenerationRequired,
                    req.input.body, {})
      [] req.endpoint = "/api/edit" ->
            ZIssues(editImageSchema, editImageRequired,
                    TransformedData(req.input.body, << >>, <<"1024x1024">>),
                    DOMAIN req.input.body \ {"n"})
      [] req.endpoint = "/api/variations" ->
            ZIssues(createVariationsSchema, createVariationsRequired,
                    TransformedData(req.input.body, "", "1024x1024"),
                    DOMAIN req.input.body \ {"n"})

\* C5: on each of the five image endpoints a request body that fails its
\* schema is answered with HTTP 400 carrying the schema-violation message, and
\* no upstream call is attempted.
C5_SchemaFailureAnswers400 ==
    (pc # "idle" /\ RequestIssues # << >>) =>
        /\ calls = << >>
        /\ responses = <<Json(400, [message |-> ZodMessage(RequestIssues)])>>

\* C6: on each of the five image endpoints, when OPENAI_API_KEY is unset or
\* does not start with "sk-", a schema-valid request is answered with HTTP 500
\* and the message "OpenAI API key not configured on server", and neither the
\* image API nor the text API of the secondary vendor is called.
C6_MissingKeyAnswers500 ==
    (pc # "idle" /\ RequestIssues = << >> /\ OpenAiKeyUnusable) =>
        /\ calls = << >>
        /\ pc = "responded"
        /\ responses =
             <<Json(500, [message |-> <<"OpenAI API key not configured on server">>])>>

C6_Witness ==
    /\ req.endpoint = "/api/variations"
    /\ RequestIssues = << >>
    /\ env.OPENAI_API_KEY = <<"pk-", "live">>
    /\ req.input.file # << >>
    /\ Len(responses) = 1
    /\ responses[1].status = 500

\* the tasks whose image call has settled, with what upstream answered
\* (upstream) and what the wrapper of lib/openai.ts returned or threw (returned)
SettledTasks == {i \in 1..Len(tasks) : Has(tasks[i], "upstream")}

SingleCallEndpoints ==
    {"/api/generate", "/api/flower-generate", "/api/edit", "/api/variations"}

\* the text each wrapper puts in front of the message of the error it caught
WrapperPrefix ==
    CASE req.endpoint = "/api/edit"       -> <<"Failed to edit image: ">>
      [] req.endpoint = "/api/variations" -> <<"Failed to create image variations: ">>
      [] OTHER                            -> <<"Failed to generate image: ">>

\* C7 as claimed: when the upstream image call of a generate, flower-generate,
\* edit or variations request is rejected with message M, the endpoint answers
\* HTTP 500 with a body whose message is M.
C7_UpstreamMessageVerbatim ==
    \A i \in SettledTasks :
        (req.endpoint \in SingleCallEndpoints /\ ~tasks[i].upstream.ok) =>
            responses = <<Json(500, [message |-> tasks[i].upstream.message])>>

\* C7 as amended: when the upstream image call of a generate, flower-generate,
\* edit or variations request is rejected with message M, the endpoint answers
\* HTTP 500 with a body whose message is M, verbatim, behind the prefix of the
\* wrapper that made the call ("Failed to generate image: ", "Failed to edit
\* image: ", "Failed to create image variations: ").
C7_UpstreamMessageBehindPrefix ==
    \A i \in SettledTasks :
        (req.endpoint \in SingleCallEndpoints /\ ~tasks[i].upstream.ok) =>
            responses =
                <<Json(500, [message |-> WrapperPrefix \o tasks[i].upstream.message])>>

C7_Witness ==
    /\ req.endpoint = "/api/edit"
    /\ \E i \in SettledTasks :
          /\ ~tasks[i].upstream.ok
          /\ tasks[i].upstream.message = <<"429 Rate limit exceeded">>
    /\ Len(responses) = 1
    /\ responses[1].status = 500

\* the upstream answer is a success whose entries all have a url or a b64_json
AllUsable(upstream) ==
    /\ upstream.ok
    /\ Has(upstream, "data") =>
          \A j \in 1..Len(upstream.data) :
              \/ Has(upstream.data[j], "url") /\ upstream.data[j].url # << >>
              \/ Has(upstream.data[j], "b64_json") /\ upstream.data[j].b64_json # << >>

\* the list the claim expects for an upstream answer with usable entries
ExpectedStrings(upstream) ==
    IF ~Has(upstream, "data") THEN << >>
    ELSE [j \in 1..Len(upstream.data) |->
            IF Has(upstream.data[j], "url") /\ upstream.data[j].url # << >>
            THEN upstream.data[j].url
            ELSE <<"data:image/png;base64,">> \o upstream.data[j].b64_json]

\* C8: generateImage, editImage and createImageVariations return the
\* element-wise image of the upstream data list: same length, same order, the
\* i-th string being the i-th entry's url unchanged if it has one (a non-empty
\* string), otherwise "data:image/png;base64," followed by its b64_json; an
\* empty or absent upstream list yields an empty list, returned as a success.
C8_ElementWiseImage ==
    \A i \in SettledTasks :
        AllUsable(tasks[i].upstream) =>
            /\ tasks[i].returned = [ok |-> TRUE, value |-> ExpectedStrings(tasks[i].upstream)]
            /\ req.endpoint \in SingleCallEndpoints =>
                  responses =
                      <<Json(200, [imageUrls |-> ExpectedStrings(tasks[i].upstream)])>>

C8_Witness ==
    /\ req.endpoint = "/api/variations"
    /\ \E i \in SettledTasks :
          /\ tasks[i].upstream.ok
          /\ Has(tasks[i].upstream, "data")
          /\ tasks[i].upstream.data =
                <<[b64_json |-> <<"aGVsbG8=">>], [url |-> <<"https://img/1">>]>>
          /\ tasks[i].returned.ok
          /\ Len(tasks[i].returned.value) = 2

\* the upstream answer is a list with an entry that has neither a url nor a
\* b64_json
SomeUnusable(upstream) ==
    /\ upstream.ok
    /\ Has(upstream, "data")
    /\ \E j \in 1..Len(upstream.data) :
          /\ ~(Has(upstream.data[j], "url") /\ upstream.data[j].url # << >>)
          /\ ~(Has(upstream.data[j], "b64_json") /\ upstream.data[j].b64_json # << >>)

InvalidResponseFormat == WrapperPrefix \o <<"Invalid response format from OpenAI API">>

\* C9 as claimed: if any entry of the upstream image list has neither a url
\* nor a b64_json, the whole call fails, no partial list is returned, and the
\* endpoint answers HTTP 500 with an "invalid response format" error.
C9_ShapeViolationAnswers500 ==
    \A i \in SettledTasks :
        SomeUnusable(tasks[i].upstream) =>
            /\ ~tasks[i].returned.ok
            /\ pc = "responded" =>
                  responses = <<Json(500, [message |-> InvalidResponseFormat])>>

\* C9 as amended: if any entry of the upstream image list has neither a url
\* nor a b64_json, the whole call fails and no partial list is returned; the
\* generate, flower-generate, edit and variations endpoints answer HTTP 500
\* with the wrapper's "Invalid response format from OpenAI API" error, while
\* the batch endpoint records the error on that item alone, with an empty
\* imageUrls list, and answers HTTP 200.
C9_ShapeViolationFailsTheCall ==
    \A i \in SettledTasks :
        SomeUnusable(tasks[i].upstream) =>
            /\ tasks[i].returned = [ok |-> FALSE, message |-> InvalidResponseFormat]
            /\ req.endpoint \in SingleCallEndpoints =>
                  responses = <<Json(500, [message |-> InvalidResponseFormat])>>
            /\ req.endpoint = "/api/batch-flower-generate" =>
                  /\ tasks[i].result.imageUrls = << >>
                  /\ tasks[i].result.error = InvalidResponseFormat
                  /\ pc = "responded" =>
                        /\ Len(responses) = 1
                        /\ responses[1].status = 200
                        /\ responses[1].body.results[i] = tasks[i].result

C9_Witness ==
    /\ req.endpoint = "/api/batch-flower-generate"
    /\ pc = "responded"
    /\ \E i \in SettledTasks :
          /\ SomeUnusable(tasks[i].upstream)
          /\ Len(tasks[i].upstream.data) = 2
          /\ Has(tasks[i].upstream.data[1], "url")
          /\ tasks[i].upstream.data[1].url # << >>
    /\ \E k \in SettledTasks : tasks[k].returned.ok

\* the bodies handed to images.edit so far
EditCallBodies ==
    {calls[j].body : j \in {i \in 1..Len(calls) : calls[i].api = "images.edit"}}

\* C10: for every edit request that carries a mask, for both models and every
\* byte content of the mask, the mask file in the upstream payload is named
\* "mask.png", labelled "image/png", and holds the uploaded bytes unchanged.
C10_MaskAlwaysPng ==
    \A body \in EditCallBodies :
        req.input.mask # << >> =>
            /\ Has(body, "mask")
            /\ body.mask.name = <<"mask.png">>
            /\ body.mask.type = <<"image", "png">>
            /\ body.mask.bytes = req.input.mask[1].buffer

C10_Witness ==
    /\ req.endpoint = "/api/edit"
    /\ req.input.mask # << >>
    /\ req.input.mask[1].buffer = Jpeg
    /\ \E body \in EditCallBodies :
          /\ body.model = "gpt-image-1"
          /\ body.mask.type = <<"image", "png">>
          /\ body.mask.bytes = Jpeg

\* the source files of an edit body, one File or an array of Files alike
SentFiles(body) == body.image.files

\* the label the leading bytes of a buffer call for: 89 50 4E 47, else
\* FF D8 FF Ex, else the fallback
LabelOf(buffer) ==
    IF Len(buffer) >= 4 /\ SubSeq(buffer, 1, 4) = <<137, 80, 78, 71>>
    THEN <<"image", "png">>
    ELSE IF /\ Len(buffer) >= 4
            /\ SubSeq(buffer, 1, 3) = <<255, 216, 255>>
            /\ buffer[4] \in 224..239
    THEN <<"image", "jpeg">>
    ELSE <<"image", "webp">>

\* the buffers of the populated originalImage<i> fields, lowest index first
UploadedBuffers ==
    LET populated == DOMAIN req.input.files
        Rank(i) == Cardinality({j \in populated : j < i}) + 1
    IN  [r \in 1..Cardinality(populated) |->
            req.input.files[CHOOSE i \in populated : Rank(i) = r].buffer]

\* C11: every source image of an edit request is classified from its leading
\* bytes alone, in the order PNG signature, JPEG signature prefix, fallback
\* "image/webp"; the MIME type the uploader declared is never consulted, and
\* the file at position i (from 0) is named image<i>.<subtype of the label>.
C11_ClassifiedByLeadingBytes ==
    \A body \in EditCallBodies :
        \A j \in 1..Len(SentFiles(body)) :
            /\ SentFiles(body)[j].bytes = UploadedBuffers[j]
            /\ SentFiles(body)[j].type = LabelOf(UploadedBuffers[j])
            /\ SentFiles(body)[j].name =
                  <<"image", j - 1, ".", LabelOf(UploadedBuffers[j])[2]>>

C11_Witness ==
    /\ req.endpoint = "/api/edit"
    /\ DOMAIN req.input.files = {1, 15}
    /\ req.input.files[1] = Upload(Jpeg, "image/png")
    /\ req.input.files[15] = Upload(JpegDb, "image/jpeg")
    /\ \E body \in EditCallBodies :
          /\ Len(SentFiles(body)) = 2
          /\ SentFiles(body)[1].name = <<"image", 0, ".", "jpeg">>
          /\ SentFiles(body)[2].name = <<"image", 1, ".", "webp">>

\* the number of populated originalImage<i> fields of the edit request
SourceImages == Cardinality(DOMAIN req.input.files)

\* the edit request passed validation and the key check with model m
EditRequestFor(m) ==
    /\ req.endpoint = "/api/edit"
    /\ ValidatedModelIs(m)
    /\ ~OpenAiKeyUnusable

\* C12: an edit request with model "dall-e-2" and k >= 1 source images is not
\* rejected, whatever k is: it is forwarded with an image field that is the
\* first image (lowest-numbered populated originalImage field) as a single
\* file, never a list, and the other k - 1 images are not sent.
C12_DallE2SendsFirstImageOnly ==
    (EditRequestFor("dall-e-2") /\ SourceImages >= 1) =>
        /\ Len(calls) = 1
        /\ calls[1].api = "images.edit"
        /\ calls[1].body.image.kind = "file"
        /\ Len(SentFiles(calls[1].body)) = 1
        /\ SentFiles(calls[1].body)[1].bytes = UploadedBuffers[1]

C12_Witness ==
    /\ EditRequestFor("dall-e-2")
    /\ DOMAIN req.input.files = {1, 15}
    /\ req.input.files[1].buffer # req.input.files[15].buffer
    /\ Len(calls) = 1
    /\ SentFiles(calls[1].body)[1].bytes = req.input.files[1].buffer

\* C13: an edit request with model "gpt-image-1" and k source images is
\* forwarded with the single file as its image field if k = 1 and with a list
\* of exactly k files, in ascending order of their originalImage field index,
\* if k > 1; the payload has a mask key if and only if a mask was uploaded.
C13_GptImage1SendsAllImages ==
    (EditRequestFor("gpt-image-1") /\ SourceImages >= 1) =>
        /\ Len(calls) = 1
        /\ calls[1].api = "images.edit"
        /\ calls[1].body.image.kind = (IF SourceImages = 1 THEN "file" ELSE "array")
        /\ Len(SentFiles(calls[1].body)) = SourceImages
        /\ \A j \in 1..SourceImages :
              SentFiles(calls[1].body)[j].bytes = UploadedBuffers[j]
        /\ Has(calls[1].body, "mask") <=> req.input.mask # << >>

C13_Witness ==
    /\ EditRequestFor("gpt-image-1")
    /\ DOMAIN req.input.files = {0, 1, 15}
    /\ req.input.files[0].buffer = Png
    /\ req.input.files[1].buffer = Jpeg
    /\ req.input.files[15].buffer = Webp
    /\ req.input.mask = << >>
    /\ Len(calls) = 1
    /\ calls[1].body.image.kind = "array"
    /\ Len(SentFiles(calls[1].body)) = 3
    /\ ~Has(calls[1].body, "mask")

\* the batch request passed validation, the key check and the template lookup
BatchAccepted ==
    /\ req.endpoint = "/api/batch-flower-generate"
    /\ RequestIssues = << >>
    /\ ~OpenAiKeyUnusable
    /\ req.input.body.templateId \in {<<"single-branch">>, <<"bouquet">>}

SubmittedItems == req.input.body.items

\* C14: the response to an accepted batch request has exactly one result per
\* submitted item, and result i carries the referenceImageId and variables of
\* submitted item i, whatever order the items' upstream calls complete in and
\* whichever of them fail.
C14_ResultsInSubmissionOrder ==
    (BatchAccepted /\ pc = "responded") =>
        /\ Len(responses) = 1
        /\ responses[1].status = 200
        /\ Len(responses[1].body.results) = Len(SubmittedItems)
        /\ \A i \in 1..Len(SubmittedItems) :
              /\ responses[1].body.results[i].referenceImageId =
                    SubmittedItems[i].referenceImageId
              /\ responses[1].body.results[i].variables = SubmittedItems[i].variables

C14_Witness ==
    /\ BatchAccepted
    /\ pc = "responded"
    /\ Len(SubmittedItems) = 2
    /\ Has(tasks[1], "settledAfter") /\ Has(tasks[2], "settledAfter")
    /\ tasks[2].settledAfter < tasks[1].settledAfter
    /\ Has(responses[1].body.results[1], "error")
    /\ ~Has(responses[1].body.results[2], "error")

\* the upstream call of item i (text rewrite or image) ended in a failure
UpstreamFailed(i) ==
    /\ tasks[i].pc = "done"
    /\ Has(tasks[i], "settledAfter")
    /\ ~(Has(tasks[i], "returned") /\ tasks[i].returned.ok)

\* the result of item i when its own calls succeed with the list urls
OwnSuccess(i, urls) ==
    [referenceImageId |-> SubmittedItems[i].referenceImageId,
     variables |-> SubmittedItems[i].variables,
     processedPrompt |->
        processTemplate(FLOWER_TEMPLATES[FindTemplate(req.input.body.templateId)],
                        SubmittedItems[i].variables),
     imageUrls |-> urls]

\* C15: in a batch, an item whose upstream call (image API or text rewrite)
\* fails is recorded with imageUrls = [] and a non-empty error string, every
\* other item's result is what its own calls alone determine, and the endpoint
\* answers with the full results list rather than an error status.
C15_ItemFailureIsolated ==
    (BatchAccepted /\ pc = "responded") =>
        /\ Len(responses) = 1
        /\ responses[1].status = 200
        /\ Len(tasks) = Len(SubmittedItems)
        /\ Len(responses[1].body.results) = Len(SubmittedItems)
        /\ \A i \in 1..Len(tasks) :
              /\ Has(tasks[i], "result")
              /\ responses[1].body.results[i] = tasks[i].result
              /\ UpstreamFailed(i) =>
                    /\ tasks[i].result.imageUrls = << >>
                    /\ Has(tasks[i].result, "error")
                    /\ tasks[i].result.error # << >>
              /\ (Has(tasks[i], "returned") /\ tasks[i].returned.ok) =>
                    tasks[i].result = OwnSuccess(i, ExpectedStrings(tasks[i].upstream))

C15_Witness ==
    /\ BatchAccepted
    /\ pc = "responded"
    /\ ValidatedModelIs(Gemini)
    /\ UpstreamFailed(1)
    /\ ~Has(tasks[1], "upstream")
    /\ Has(tasks[2], "returned")
    /\ tasks[2].returned.ok
    /\ Len(responses[1].body.results[2].imageUrls) = 2

FlowerEndpoints == {"/api/flower-generate", "/api/batch-flower-generate"}

\* the positions in the call log of the calls task t made to api
CallsOf(t, api) == {j \in 1..Len(calls) : calls[j].task = t /\ calls[j].api = api}

\* the text rewrite of task t ended in a failure
RewriteFailed(t) ==
    /\ tasks[t].pc = "done"
    /\ CallsOf(t, "gemini.generateContent") # {}
    /\ ~Has(tasks[t], "enhancedPrompt")

\* C17: whenever the Gemini model is selected on /api/flower-generate or
\* /api/batch-flower-generate, for each prompt the text-rewrite call is made
\* and completes before the image call, the image call is issued with model
\* "gpt-image-1" and the rewritten text as its prompt, no image call carries
\* the Gemini model name, and a failed text rewrite is followed by no image
\* call for that prompt.
C17_RewriteThenImage ==
    /\ \A j \in 1..Len(calls) :
          calls[j].api = "images.generate" => calls[j].body.model # Gemini
    /\ (req.endpoint \in FlowerEndpoints /\ ValidatedModelIs(Gemini)) =>
          \A t \in 1..Len(tasks) :
              /\ \A j \in CallsOf(t, "images.generate") :
                    /\ \E k \in CallsOf(t, "gemini.generateContent") : k < j
                    /\ Has(tasks[t], "enhancedPrompt")
                    /\ calls[j].body.prompt = tasks[t].enhancedPrompt
                    /\ calls[j].body.model = "gpt-image-1"
              /\ tasks[t].pc = "gemini" => CallsOf(t, "images.generate") = {}
              /\ RewriteFailed(t) => CallsOf(t, "images.generate") = {}

C17_Witness ==
    /\ req.endpoint = "/api/batch-flower-generate"
    /\ ValidatedModelIs(Gemini)
    /\ Len(tasks) = 2
    /\ RewriteFailed(1)
    /\ CallsOf(1, "images.generate") = {}
    /\ \E j \in CallsOf(2, "images.generate") :
          /\ calls[j].body.model = "gpt-image-1"
          /\ calls[j].body.prompt = <<"a detailed studio photo of a rose">>

\* the Gemini model is selected on a flower endpoint, with a known template,
\* and GEMINI_API_KEY is absent
GeminiKeyAbsent ==
    /\ req.endpoint \in FlowerEndpoints
    /\ ValidatedModelIs(Gemini)
    /\ req.input.body.templateId \in {<<"single-branch">>, <<"bouquet">>}
    /\ env.GEMINI_API_KEY = << >>

\* C18: when the Gemini model is selected on /api/flower-generate or
\* /api/batch-flower-generate and GEMINI_API_KEY is absent, neither the text
\* API of the secondary vendor nor the image API is called for that request,
\* for a batch for none of its items.
C18_NoCallWithoutGeminiKey ==
    GeminiKeyAbsent => calls = << >>

C18_Witness ==
    /\ GeminiKeyAbsent
    /\ ~OpenAiKeyUnusable
    /\ req.endpoint = "/api/batch-flower-generate"
    /\ Len(req.input.body.items) = 2
    /\ pc = "responded"
    /\ calls = << >>

\* C19: a missing GEMINI_API_KEY while the Gemini model is selected is
\* answered with HTTP 500 and a message naming the misconfiguration, on
\* /api/flower-generate and on /api/batch-flower-generate alike.
C19_MissingGeminiKeyAnswers500 ==
    (GeminiKeyAbsent /\ ~OpenAiKeyUnusable) =>
        responses = <<Json(500, [message |-> <<"Gemini API key not configured on server">>])>>

\* the part of C19 that concerns /api/flower-generate
C19_FlowerOnly ==
    (GeminiKeyAbsent /\ ~OpenAiKeyUnusable /\ req.endpoint = "/api/flower-generate") =>
        responses = <<Json(500, [message |-> <<"Gemini API key not configured on server">>])>>

\* the calls generateImage, editImage and createImageVariations made
ImageCalls ==
    {j \in 1..Len(calls) :
        calls[j].api \in {"images.generate", "images.edit", "images.createVariation"}}

\* the request has a user field that is a non-empty string
UserGiven == Has(req.input.body, "user") /\ req.input.body.user # << >>

\* C20: in generateImage, editImage and createImageVariations, for every
\* model, a user field that is present and non-empty is sent as user, the
\* exact string, and a user field that is absent or the empty string leaves
\* the payload without a user key.
C20_UserForwardedWhenNonEmpty ==
    \A j \in ImageCalls :
        IF UserGiven
        THEN Has(calls[j].body, "user") /\ calls[j].body.user = req.input.body.user
        ELSE ~Has(calls[j].body, "user")

C20_Witness ==
    /\ req.endpoint = "/api/edit"
    /\ UserGiven
    /\ \E j \in ImageCalls :
          /\ calls[j].api = "images.edit"
          /\ calls[j].body.user = <<"user-1">>

\* a request whose user field is the empty string reaches the image API
C20_EmptyUserReached ==
    /\ req.endpoint = "/api/variations"
    /\ Has(req.input.body, "user")
    /\ req.input.body.user = << >>
    /\ \E j \in ImageCalls : calls[j].api = "images.createVariation"

\* the bodies handed to images.createVariation so far
VariationCallBodies ==
    {calls[j].body : j \in {i \in 1..Len(calls) : calls[i].api = "images.createVariation"}}

\* the count a variations form asks for: its n field read as a decimal
\* number, 1 when the field is absent or empty
RequestedCount ==
    IF Has(req.input.body, "n") /\ req.input.body.n # << >>
    THEN parseInt(req.input.body.n) ELSE 1

\* C21: the payload of an accepted /api/variations request consists of
\* exactly image, n, size, response_format and, only if non-empty, user, never
\* a model or a prompt; size is one of 256x256, 512x512, 1024x1024;
\* response_format is "url" when the caller omitted it; n is the requested
\* count, 1 when omitted; a stub upstream answering n = 3 with three url
\* entries yields exactly those three URL strings.
C21_VariationsPayload ==
    \A body \in VariationCallBodies :
        /\ DOMAIN body = {"image", "n", "size", "response_format"}
                            \cup (IF UserGiven THEN {"user"} ELSE {})
        /\ body.size \in {"256x256", "512x512", "1024x1024"}
        /\ body.response_format =
              (IF Has(req.input.body, "response_format")
               THEN req.input.body.response_format ELSE "url")
        /\ body.n = RequestedCount
        /\ body.image.bytes = req.input.file[1].buffer
        /\ \A i \in SettledTasks :
              (tasks[i].upstream.ok /\ Has(tasks[i].upstream, "data")
                  /\ \A k \in 1..Len(tasks[i].upstream.data) :
                        DOMAIN tasks[i].upstream.data[k] = {"url"}
                        /\ tasks[i].upstream.data[k].url # << >>) =>
                  responses = <<Json(200, [imageUrls |->
                      [k \in 1..Len(tasks[i].upstream.data) |->
                          tasks[i].upstream.data[k].url]])>>

C21_Witness ==
    /\ req.endpoint = "/api/variations"
    /\ req.input.body = [n |-> <<"3">>, size |-> "512x512", response_format |-> "url"]
    /\ \E body \in VariationCallBodies : body.n = 3 /\ body.size = "512x512"
    /\ Len(responses) = 1
    /\ responses[1].status = 200
    /\ Len(responses[1].body.imageUrls) = 3

\* the quality vocabulary of each model
QualityVocabulary(model) ==
    CASE model = "dall-e-3"    -> {"standard", "hd"}
      [] model = "gpt-image-1" -> {"auto", "high", "medium", "low"}
      [] OTHER                 -> {}

\* the request passed validation and every check of its handler up to the
\* upstream call of /api/generate or /api/edit
ProceedsUpstream ==
    /\ pc # "idle"
    /\ RequestIssues = << >>
    /\ ~OpenAiKeyUnusable
    /\ \/ req.endpoint = "/api/generate" /\ ~ValidatedModelIs(Gemini)
       \/ req.endpoint = "/api/edit" /\ DOMAIN req.input.files # {}

\* C23: quality is forwarded only when it belongs to the vocabulary of the
\* selected model: "standard" or "hd" with dall-e-3, "auto", "high", "medium"
\* or "low" with gpt-image-1 (generation and edit); a schema-valid quality of
\* the other vocabulary is left out and the request still proceeds upstream.
C23_QualityOfOwnVocabulary ==
    /\ \A j \in 1..Len(calls) :
          calls[j].api \in {"images.generate", "images.edit"} =>
              IF Has(req.input.body, "quality")
                 /\ req.input.body.quality \in QualityVocabulary(calls[j].body.model)
              THEN Has(calls[j].body, "quality")
                   /\ calls[j].body.quality = req.input.body.quality
              ELSE ~Has(calls[j].body, "quality")
    /\ ProceedsUpstream =>
          /\ Len(calls) = 1
          /\ calls[1].api \in {"images.generate", "images.edit"}

C23_Witness ==
    /\ req.endpoint = "/api/generate"
    /\ ValidatedModelIs("gpt-image-1")
    /\ Has(validatedData, "quality")
    /\ validatedData.quality = "hd"
    /\ Len(calls) = 1
    /\ calls[1].body.model = "gpt-image-1"
    /\ ~Has(calls[1].body, "quality")

\* the same on /api/edit, and a quality of the model's own vocabulary
C23_EditReached ==
    /\ req.endpoint = "/api/edit"
    /\ ValidatedModelIs("gpt-image-1")
    /\ Len(calls) = 1
    /\ Has(calls[1].body, "quality")
    /\ calls[1].body.quality = "high"

\* C24: the payload of an edit request contains response_format only when the
\* model is dall-e-2 and the caller supplied one, contains quality,
\* output_format, output_compression and background only when the model is
\* gpt-image-1, never contains style or moderation, and carries the requested
\* n unchanged for both models.
C24_EditPayloadFields ==
    \A body \in EditCallBodies :
        /\ Has(body, "response_format") =>
              /\ body.model = "dall-e-2"
              /\ Has(req.input.body, "response_format")
              /\ body.response_format = req.input.body.response_format
        /\ \A k \in {"quality", "output_format", "output_compression", "background"} :
              Has(body, k) => body.model = "gpt-image-1"
        /\ ~Has(body, "style")
        /\ ~Has(body, "moderation")
        /\ body.n = RequestedCount

C24_Witness ==
    /\ req.endpoint = "/api/edit"
    /\ Has(req.input.body, "response_format")
    /\ \E body \in EditCallBodies :
          /\ body.model = "gpt-image-1"
          /\ ~Has(body, "response_format")

\* an edit with n = 3 and an edit that carries a gpt-image-1 field reach the
\* upstream call
C24_CountReached ==
    /\ req.endpoint = "/api/edit"
    /\ \E body \in EditCallBodies : body.model = "dall-e-2" /\ body.n = 3

C24_GptFieldReached ==
    /\ req.endpoint = "/api/edit"
    /\ \E body \in EditCallBodies : Has(body, "background")

\* the accepted batch request makes upstream calls: it does not select the
\* Gemini model without GEMINI_API_KEY
BatchCallsUpstream ==
    /\ BatchAccepted
    /\ ValidatedModelIs(Gemini) => env.GEMINI_API_KEY # << >>

\* the items whose task is suspended on an upstream call
InFlight == {i \in 1..Len(tasks) : tasks[i].pc \in {"gemini", "image"}}

\* C25: in a batch of N items all N item tasks are started before the handler
\* waits for any result: from the moment the handler suspends, every item has
\* issued its first upstream call, whatever the state of the other items, so
\* all N calls are in flight at once and nothing caps the fan-out below N.
C25_AllItemsStartedAtOnce ==
    BatchCallsUpstream =>
        /\ Len(tasks) = Len(SubmittedItems)
        /\ \A i \in 1..Len(SubmittedItems) :
              \E j \in 1..Len(calls) :
                  /\ calls[j].task = i
                  /\ calls[j].api =
                        (IF ValidatedModelIs(Gemini)
                         THEN "gemini.generateContent" ELSE "images.generate")
        /\ (\A i \in 1..Len(tasks) : ~Has(tasks[i], "settledAfter")) =>
              Cardinality(InFlight) = Len(SubmittedItems)

C25_Witness ==
    /\ BatchCallsUpstream
    /\ pc = "waiting"
    /\ Len(SubmittedItems) = MaxItems
    /\ Cardinality(InFlight) = MaxItems
    /\ Len(calls) = MaxItems

\* what the log of a generate or edit request shows of the order of its
\* steps: a call is in the log only for a request that passed validation, its
\* payload is resolved from the validated data and, for an edit, from files
\* that are already classified, and a normalized result exists only for a call
\* that is in the log and has returned
StepsInOrder ==
    req.endpoint \in {"/api/generate", "/api/edit"} =>
        /\ \A j \in 1..Len(calls) :
              /\ RequestIssues = << >>
              /\ validatedData # EmptyObject
              /\ calls[j].body.prompt = validatedData.prompt
              /\ calls[j].body.size = validatedData.size
              /\ calls[j].api = "images.edit" =>
                    \A k \in 1..Len(SentFiles(calls[j].body)) :
                        SentFiles(calls[j].body)[k].type =
                            LabelOf(SentFiles(calls[j].body)[k].bytes)
        /\ \A i \in 1..Len(tasks) :
              Has(tasks[i], "returned") =>
                  /\ Has(tasks[i], "upstream")
                  /\ \E j \in 1..Len(calls) : calls[j].task = i
        /\ (pc = "responded" /\ calls # << >>) => Has(tasks[1], "returned")

\* normalization starts in a step after the one that issued the call
NormalizesAfterCall ==
    \A i \in 1..Len(tasks') :
        (Has(tasks'[i], "returned") /\ ~(i <= Len(tasks) /\ Has(tasks[i], "returned"))) =>
            /\ i <= Len(tasks)
            /\ tasks[i].pc = "image"
            /\ \E j \in 1..Len(calls) : calls[j].task = i

\* C26: within a single edit or generation request the steps happen in the
\* order validate, classify files, resolve parameters, call upstream,
\* normalize response: the upstream call is never issued before validation
\* has succeeded, its payload is built from validated data and classified
\* files, and normalization never starts before the upstream call returned.
C26_StepsStrictlyOrdered ==
    /\ []StepsInOrder
    /\ [][NormalizesAfterCall]_vars

C26_Witness ==
    /\ req.endpoint = "/api/edit"
    /\ pc = "responded"
    /\ Len(calls) = 1
    /\ Len(SentFiles(calls[1].body)) = 2
    /\ SentFiles(calls[1].body)[2].type = <<"image", "jpeg">>
    /\ Has(tasks[1], "returned")
    /\ tasks[1].returned.ok
    /\ responses[1].status = 200

\* C27: no request is ever retried: a generate, flower-generate, edit or
\* variations request issues at most one image API call, and a batch request
\* at most one image API call and at most one text-rewrite call per item,
\* whether those calls succeed or fail.
C27_NoRetry ==
    /\ req.endpoint \in SingleCallEndpoints => Cardinality(ImageCalls) <= 1
    /\ \A t \in 1..Len(tasks) :
          /\ Cardinality({j \in ImageCalls : calls[j].task = t}) <= 1
          /\ Cardinality(CallsOf(t, "gemini.generateContent")) <= 1
    /\ \A j \in 1..Len(calls) : calls[j].task \in 1..Len(tasks)

C27_Witness ==
    /\ req.endpoint = "/api/batch-flower-generate"
    /\ ValidatedModelIs(Gemini)
    /\ pc = "responded"
    /\ Len(tasks) = 2
    /\ Has(tasks[1], "upstream")
    /\ ~tasks[1].upstream.ok
    /\ Cardinality({j \in ImageCalls : calls[j].task = 1}) = 1
    /\ RewriteFailed(2)
    /\ Len(calls) = 3

\* the credentials the request of connection c supplies in its tokens
OwnCredentials(c) == JSONParse(driveRequests[c].req.input.tokens).value

\* the requests in flight or answered carry pairwise different tokens
DifferentTokens ==
    \A c, d \in Connections :
        (/\ c # d
         /\ Has(driveRequests[c].req.input, "tokens")
         /\ Has(driveRequests[d].req.input, "tokens"))
        => driveRequests[c].req.input.tokens # driveRequests[d].req.input.tokens

\* C28: no mutable state is shared across requests: when concurrent
\* requests on /api/drive/files, /api/drive/file/:fileId,
\* /api/drive/upload-image and /api/drive/create-folder carry different
\* tokens, every Drive API call made while handling a request is executed
\* with the credentials that same request supplied, under any interleaving.
C28_CallsUseOwnCredentials ==
    DifferentTokens =>
        \A j \in 1..Len(driveCalls) :
            driveCalls[j].credentials = OwnCredentials(driveCalls[j].conn)

\* the edit request passed the schema
EditSchemaValid == req.endpoint = "/api/edit" /\ Has(validatedData, "prompt")

NoOriginalImage == [message |-> <<"At least one original image is required">>]

\* C29 as claimed: a schema-valid POST /api/edit that carries no file in any
\* of originalImage0..originalImage15 is answered with HTTP 400 "At least one
\* original image is required" and editImage is never called.
C29_NoFileAlwaysAnswers400 ==
    (EditSchemaValid /\ SourceImages = 0) =>
        /\ calls = << >>
        /\ responses = <<Json(400, NoOriginalImage)>>

\* C29 as amended: a schema-valid POST /api/edit without any original image
\* never reaches editImage; it is answered with HTTP 400 "At least one
\* original image is required" when OPENAI_API_KEY is usable and with the
\* HTTP 500 of the key check when it is not.  A schema-valid request with a
\* usable key and at least one image reaches editImage exactly once, and
\* whenever editImage is called the list of buffers handed to it has between
\* 1 and 16 elements: one per populated originalImage field.
C29_NoFileRejectedElseOneToSixteen ==
    /\ EditSchemaValid =>
        /\ pc # "idle"
        /\ Len(calls) = IF OpenAiKeyUnusable \/ SourceImages = 0 THEN 0 ELSE 1
        /\ OpenAiKeyUnusable => responses = <<Json(500, KeyNotConfigured)>>
        /\ (~OpenAiKeyUnusable /\ SourceImages = 0) =>
              responses = <<Json(400, NoOriginalImage)>>
    /\ \A j \in 1..Len(calls) :
          calls[j].api = "images.edit" =>
              /\ SourceImages \in 1..OriginalImageFields
              /\ ValidatedModelIs("gpt-image-1") =>
                    Len(SentFiles(calls[j].body)) = SourceImages

C29_Witness ==
    /\ EditSchemaValid
    /\ ~OpenAiKeyUnusable
    /\ SourceImages = 0
    /\ calls = << >>
    /\ Len(responses) = 1
    /\ responses[1].status = 400

\* an edit request whose only image is in the last field reaches editImage
C29_LastFieldReached ==
    /\ EditSchemaValid
    /\ DOMAIN req.input.files = {OriginalImageFields - 1}
    /\ Len(calls) = 1

\* the handler has answered exactly when none of its upstream calls is
\* pending, and a pending task has a call in the log
AnsweredWhenSettled ==
    /\ Len(responses) <= 1
    /\ (pc = "responded") <=> (Len(responses) = 1)
    /\ pc = "idle" => tasks = << >> /\ calls = << >>
    /\ pc # "idle" => ((Len(responses) = 1) <=> (InFlight = {}))
    /\ \A i \in InFlight : \E j \in 1..Len(calls) : calls[j].task = i

\* a response, once sent, is neither replaced nor followed by another
ResponseIsFinal == responses # << >> => responses' = responses

\* C30: on every execution path of the five image endpoint handlers the
\* handler sends at most one HTTP response, and sends exactly one as soon as
\* every upstream call it started has settled, in the very step in which the
\* last of them settles: a request is unanswered only while one of its
\* upstream calls is pending.
C30_ExactlyOneResponse ==
    /\ []AnsweredWhenSettled
    /\ [][ResponseIsFinal]_vars

C30_Witness ==
    /\ IsBatch
    /\ pc = "responded"
    /\ Len(tasks) = 2
    /\ Has(tasks[1], "returned") /\ ~tasks[1].returned.ok
    /\ Has(tasks[2], "returned") /\ tasks[2].returned.ok
    /\ tasks[2].settledAfter = 0
    /\ Len(responses) = 1
    /\ responses[1].status = 200

\* a path that answers without an upstream call: the missing file
C30_EarlyAnswersReached ==
    /\ req.endpoint = "/api/variations"
    /\ calls = << >>
    /\ Len(responses) = 1
    /\ responses[1].status = 400

====
